---- MODULE Spec2Model ----
(***************************************************************************)
(* profillic-hmmer: conversion between galosh profiles and Plan7 HMMs,     *)
(* the transition-unification tool and the model construction pipeline.   *)
(*                                                                         *)
(* Probabilities are exact rationals <<numerator, denominator>>; the pair *)
(* <<0,0>> stands for a non-finite float (the result of a division by     *)
(* zero and everything computed from it).                                  *)
(***************************************************************************)
EXTENDS Integers, Sequences, FiniteSets, TLC

VARIABLES
  src,        \* which tool/scenario this run is: "hmm" (an HMM file was read) or "profile"
  abc,        \* alphabet of the model: decides esl_abc_DigitizeSymbol's residue order
  hmmfile,    \* the HMM as read from the input HMM file
  hmm,        \* the in-memory P7_HMM of the tool (mutated in place by Unify)
  outhmm,     \* the HMM written to the output HMM file, NULL before
  profile,    \* the galosh profile (input of ProfileToHMM, target of HMMToProfile)
  msa,        \* the ESL_MSA handed to the model maker
  ret_hmm,    \* *ret_hmm of profillic_p7_Profillicmodelmaker
  status,     \* status returned by the last converter call
  pc,         \* position of the converter tools
  bpc,        \* position inside profillic_p7_Builder
  bstatus,    \* status returned by profillic_p7_Builder
  bhmm,       \* the builder's local hmm pointer
  btr,        \* the builder's local tr pointer (array of tracebacks)
  checksum,   \* the builder's local checksum (<<>> stands for its initial 0)
  out,        \* the caller's variables behind opt_hmm, opt_trarr, opt_gm, opt_om, opt_postmsa
  destroyed,  \* what the builder has handed to a Destroy function, in order
  ran,        \* the builder steps that have been executed, in order
  transhmm,   \* profillic-hmmcopytransitions: the model read from the transitions file
  accessed,   \* profillic-hmmcopytransitions: the t[] indices read or written, per model
  cal,        \* profillic-hmmcalibrate: the state of its main()
  rd          \* the alignment reader: input lines, position, the MSA under construction

vars == <<src, abc, hmmfile, hmm, outhmm, profile, msa, ret_hmm, status, pc,
          bpc, bstatus, bhmm, btr, checksum, out, destroyed, ran,
          transhmm, accessed, cal, rd>>
convVars == <<src, abc, hmmfile, hmm, outhmm, profile, msa, ret_hmm, status, pc>>
bldVars == <<bpc, bstatus, bhmm, btr, checksum, out, destroyed, ran>>
copyVars == <<transhmm, accessed>>
otherVars == <<cal, rd>>

(***************************************************************************)
(* Bounds                                                                  *)
(***************************************************************************)
MaxM == 3      \* largest number of match states / profile positions
K == 2         \* alphabet size (residues 0..K-1)
MaxStream == 3 \* most models in the input file of profillic-hmmcalibrate
MaxBody == 3   \* most body lines of a Stockholm record
MaxBlockLines == 2 \* most lines of a SELEX block
MaxAfaLines == 4   \* most lines of an aligned FASTA file
MaxReads == 2  \* most calls of profillic_esl_msa_Read on one open file

(***************************************************************************)
(* Status codes and NULL                                                   *)
(***************************************************************************)
eslOK == "eslOK"
eslENORESULT == "eslENORESULT"
eslEINVAL == "eslEINVAL"
eslEMEM == "eslEMEM"
eslFAIL == "eslFAIL"
SIGABRT == "SIGABRT"      \* a failed assert() ends the process
SIGSEGV == "SIGSEGV"      \* a NULL dereference ends the process
NULL == [null |-> TRUE]
UNSET == [unset |-> TRUE]  \* a pointer variable nobody has assigned yet

(***************************************************************************)
(* Transition slots of a P7_HMM row                                        *)
(***************************************************************************)
p7H_MM == 0
p7H_MI == 1
p7H_MD == 2
p7H_IM == 3
p7H_II == 4
p7H_DM == 5
p7H_DD == 6
p7H_NTRANSITIONS == 7
Slots == 0 .. (p7H_NTRANSITIONS - 1)
Residues == 0 .. (K - 1)

(***************************************************************************)
(* Exact arithmetic standing for float / the Algebra type                  *)
(***************************************************************************)
Abs(n) == IF n < 0 THEN -n ELSE n

RECURSIVE GCD(_, _)
GCD(a, b) == IF b = 0 THEN a ELSE GCD(b, a % b)

NaN == <<0, 0>>
IsNum(r) == r[2] # 0

Rat(n, d) ==
  IF d = 0 THEN NaN
  ELSE LET g == GCD(Abs(n), Abs(d))
           s == IF d < 0 THEN -1 ELSE 1
       IN <<(s * n) \div g, (s * d) \div g>>

Zero == <<0, 1>>
One == <<1, 1>>

RAdd(a, b) == IF IsNum(a) /\ IsNum(b) THEN Rat(a[1] * b[2] + b[1] * a[2], a[2] * b[2]) ELSE NaN
RSub(a, b) == IF IsNum(a) /\ IsNum(b) THEN Rat(a[1] * b[2] - b[1] * a[2], a[2] * b[2]) ELSE NaN
RMul(a, b) == IF IsNum(a) /\ IsNum(b) THEN Rat(a[1] * b[1], a[2] * b[2]) ELSE NaN
\* float division: a zero divisor gives inf or NaN, never a finite number
RDiv(a, b) == IF IsNum(a) /\ IsNum(b) /\ b[1] # 0 THEN Rat(a[1] * b[2], a[2] * b[1]) ELSE NaN
RLe(a, b) == IsNum(a) /\ IsNum(b) /\ a[1] * b[2] <= b[1] * a[2]
\* float ==: false as soon as one side is not a finite number
REq(a, b) == IsNum(a) /\ IsNum(b) /\ a = b

\* sum of v[i] for i in lo..hi
RECURSIVE VSum(_, _, _)
VSum(v, lo, hi) == IF lo > hi THEN Zero ELSE RAdd(v[lo], VSum(v, lo + 1, hi))

\* sum over the set S of the values f[x]
RECURSIVE SetSum(_, _)
SetSum(f, S) ==
  IF S = {} THEN Zero
  ELSE LET x == CHOOSE y \in S : TRUE IN RAdd(f[x], SetSum(f, S \ {x}))

(***************************************************************************)
(* esl_abc_DigitizeSymbol( abc, char( ResidueType( res_i ) ) ): the place  *)
(* of galosh residue res_i in the HMMER alphabet.  The two libraries order *)
(* their residues independently; the map is a bijection on 0..K-1.         *)
(***************************************************************************)
DigitizeSymbol(a, res_i) == IF a = "same_order" THEN res_i ELSE (K - 1) - res_i

(***************************************************************************)
(* esl_vec_FNorm(vec + off, n): in place, slots off..off+n-1               *)
(***************************************************************************)
esl_vec_FNorm(vec, off, n) ==
  LET sum == VSum(vec, off, off + n - 1)
  IN [x \in DOMAIN vec |->
        IF x < off \/ x > off + n - 1 THEN vec[x]
        ELSE IF IsNum(sum) /\ sum[1] = 0 THEN Rat(1, n)
        ELSE RDiv(vec[x], sum)]

esl_vec_FAdd(v1, v2) == [x \in DOMAIN v1 |-> RAdd(v1[x], v2[x])]

(***************************************************************************)
(* normalizeRow(vector, floor 0) of the profile library: rescale to sum 1; *)
(* a zero vector is left as it is.                                         *)
(***************************************************************************)
normalizeRow(v) ==
  LET sum == SetSum(v, DOMAIN v)
  IN IF IsNum(sum) /\ sum[1] = 0 THEN v
     ELSE [x \in DOMAIN v |-> RDiv(v[x], sum)]

(***************************************************************************)
(* The galosh profile                                                      *)
(***************************************************************************)
ZeroEmission == [res_i \in Residues |-> Zero]

\* profile.reinitialize( M ); profile.zero();
ZeroProfile(len) ==
  [length |-> len,
   Match |-> [pos_i \in 0 .. (len - 1) |-> ZeroEmission],
   PreAlignInsertion |-> ZeroEmission,
   Insertion |-> ZeroEmission,
   PostAlignInsertion |-> ZeroEmission,
   fromPreAlign |-> [toPreAlign |-> Zero, toBegin |-> Zero],
   fromBegin |-> [toMatch |-> Zero, toDeletion |-> Zero],
   fromMatch |-> [toMatch |-> Zero, toInsertion |-> Zero, toDeletion |-> Zero],
   fromInsertion |-> [toMatch |-> Zero, toInsertion |-> Zero],
   fromDeletion |-> [toMatch |-> Zero, toDeletion |-> Zero],
   fromPostAlign |-> [toPostAlign |-> Zero, toTerminal |-> Zero]]

\* profile.normalize( 0 ): every emission distribution and every transition group
ProfileNormalize(p) ==
  [length |-> p.length,
   Match |-> [pos_i \in DOMAIN p.Match |-> normalizeRow(p.Match[pos_i])],
   PreAlignInsertion |-> normalizeRow(p.PreAlignInsertion),
   Insertion |-> normalizeRow(p.Insertion),
   PostAlignInsertion |-> normalizeRow(p.PostAlignInsertion),
   fromPreAlign |-> normalizeRow(p.fromPreAlign),
   fromBegin |-> normalizeRow(p.fromBegin),
   fromMatch |-> normalizeRow(p.fromMatch),
   fromInsertion |-> normalizeRow(p.fromInsertion),
   fromDeletion |-> normalizeRow(p.fromDeletion),
   fromPostAlign |-> normalizeRow(p.fromPostAlign)]

(***************************************************************************)
(* convert_to_galosh_profile (HMMToProfile)                                *)
(***************************************************************************)
\* a wrong test for the last position: it never holds inside the loop
convert_is_last_off_by_one(pos_i, len) == pos_i = len

\* if( pos_i == ( profile.length() - 1 ) ): the last position uses post-align
convert_is_last(pos_i, len) == pos_i = len - 1

\* the body of  for( pos_i = 0; pos_i < profile.length(); pos_i++ )
RECURSIVE convert_positions(_, _, _, _)
convert_positions(a, h, p, pos_i) ==
  IF pos_i >= p.length THEN p
  ELSE
    LET last == convert_is_last(pos_i, p.length)
        k == pos_i + 1
        p1 == [p EXCEPT
                 !.Match[pos_i] = [res_i \in Residues |-> h.mat[k][DigitizeSymbol(a, res_i)]],
                 !.PostAlignInsertion =
                    IF last THEN [res_i \in Residues |-> h.ins[k][DigitizeSymbol(a, res_i)]]
                    ELSE @,
                 !.Insertion =
                    IF last THEN @
                    ELSE [res_i \in Residues |-> RAdd(@[res_i], h.ins[k][DigitizeSymbol(a, res_i)])]]
        p2 == IF last
              THEN [p1 EXCEPT
                      !.fromPostAlign =
                         [toTerminal |-> h.t[k][p7H_IM],
                          toPostAlign |-> RSub(One, h.t[k][p7H_IM])]]
              ELSE [p1 EXCEPT
                      !.fromMatch =
                         [toMatch |-> RAdd(@.toMatch, h.t[k][p7H_MM]),
                          toInsertion |-> RAdd(@.toInsertion, h.t[k][p7H_MI]),
                          toDeletion |-> RAdd(@.toDeletion, h.t[k][p7H_MD])],
                      !.fromInsertion =
                         [toMatch |-> RAdd(@.toMatch, h.t[k][p7H_IM]),
                          toInsertion |-> RAdd(@.toInsertion, h.t[k][p7H_II])],
                      !.fromDeletion =
                         [toMatch |-> RAdd(@.toMatch, h.t[k][p7H_DM]),
                          toDeletion |-> RAdd(@.toDeletion, h.t[k][p7H_DD])]]
    IN convert_positions(a, h, p2, pos_i + 1)

\* fromBegin.toMatch = t[0][MM] / ( 1.0 - t[0][MI] )
BeginToMatch(h) == RDiv(h.t[0][p7H_MM], RSub(One, h.t[0][p7H_MI]))

\* the result: [status, profile]; prof is the caller's profile object
convert_to_galosh_profile(a, h, prof) ==
  IF h.M = 0 THEN [status |-> eslENORESULT, profile |-> prof]
  ELSE
    LET z == ZeroProfile(h.M)
        p0 == [z EXCEPT
                 !.fromPreAlign =
                    [toPreAlign |-> h.t[0][p7H_II], toBegin |-> h.t[0][p7H_IM]],
                 !.PreAlignInsertion =
                    [res_i \in Residues |-> h.ins[0][DigitizeSymbol(a, res_i)]],
                 !.fromBegin =
                    [toMatch |-> BeginToMatch(h),
                     toDeletion |-> RSub(One, BeginToMatch(h))]]
    IN [status |-> eslOK,
        profile |-> ProfileNormalize(convert_positions(a, h, p0, 0))]

(***************************************************************************)
(* The Plan7 HMM and the MSA                                               *)
(***************************************************************************)
NullStr == [alloc |-> FALSE, s |-> <<>>]

ZeroRow == [x \in Slots |-> Zero]

\* the three score-cutoff pairs (GA1,GA2), (TC1,TC2), (NC1,NC2) of an
\* alignment and of a model; a pair is << first, second >>
CutoffPairs == {"GA", "TC", "NC"}
p7_CUTOFF_UNSET == << -99999, 1 >>
p7H_CutoffFlag(pair) ==
  IF pair = "GA" THEN "p7H_GA" ELSE IF pair = "TC" THEN "p7H_TC" ELSE "p7H_NC"

\* p7_hmm_Create(M, abc) followed by p7_hmm_Zero(hmm)
ZeroHMM(M) ==
  [M |-> M,
   t |-> [k \in 0 .. M |-> ZeroRow],
   mat |-> [k \in 0 .. M |-> ZeroEmission],
   ins |-> [k \in 0 .. M |-> ZeroEmission],
   nseq |-> 0, eff_nseq |-> 0,
   rf |-> NullStr, cs |-> NullStr, ca |-> NullStr,
   map |-> <<>>, flags |-> {}, checksum |-> <<>>,
   cutoff |-> [pair \in CutoffPairs |-> << p7_CUTOFF_UNSET, p7_CUTOFF_UNSET >>]]

\* toDouble( x ): the float held by the real-space Algebra value
toDouble(x) == x

\* a store that forgets to digitize the residue
StoreEmission_undigitized(a, row, em, res_i) == [r \in Residues |-> toDouble(em[r])]

\* for each res_i: row[ DigitizeSymbol( res_i ) ] = toDouble( em[ res_i ] )
RECURSIVE StoreEmission(_, _, _, _)
StoreEmission(a, row, em, res_i) ==
  IF res_i >= K THEN row
  ELSE StoreEmission(a, [row EXCEPT ![DigitizeSymbol(a, res_i)] = toDouble(em[res_i])],
                     em, res_i + 1)

\* one annotation line: ' ' at index 0, then the MSA's columns 1..alen
annotation_line(line, alen) ==
  IF line.alloc THEN [alloc |-> TRUE, s |-> <<" ">> \o SubSeq(line.s, 1, alen)]
  ELSE NullStr

Min(x, y) == IF x <= y THEN x ELSE y

\* what a write past the end of a heap array can do, and what an int that
\* was allocated and never written can hold
HeapOverflowOutcomes == {"SIGSEGV", "corrupted"}
UninitialisedInts == {0, 1}
UndefinedOutcomes == [overflow : HeapOverflowOutcomes, garbage : UninitialisedInts]

\* every array entry profillic_annotate_model writes: rf, cs and ca have
\* M+2 entries and are written at 0..alen+1, map has M+1 entries and is
\* written at 0..alen
annotate_model_writes(h, m) ==
  { [array |-> "map", k |-> k, size |-> h.M + 1] : k \in 0 .. m.alen }
  \cup (IF m.rf.alloc
        THEN { [array |-> "rf", k |-> k, size |-> h.M + 2] : k \in 0 .. (m.alen + 1) }
        ELSE {})
  \cup (IF m.ss_cons.alloc
        THEN { [array |-> "cs", k |-> k, size |-> h.M + 2] : k \in 0 .. (m.alen + 1) }
        ELSE {})
  \cup (IF m.sa_cons.alloc
        THEN { [array |-> "ca", k |-> k, size |-> h.M + 2] : k \in 0 .. (m.alen + 1) }
        ELSE {})

WriteOutOfBounds(w) == w.k >= w.size
annotate_model_overflows(h, m) ==
  \E w \in annotate_model_writes(h, m) : WriteOutOfBounds(w)

\* the model after the writes that landed inside its arrays; map entries
\* above alen keep what malloc left there
profillic_annotate_model(h, m, ub) ==
  [h EXCEPT
     !.rf = annotation_line(m.rf, Min(m.alen, h.M + 1)),
     !.cs = annotation_line(m.ss_cons, Min(m.alen, h.M + 1)),
     !.ca = annotation_line(m.sa_cons, Min(m.alen, h.M + 1)),
     !.map = [k \in 0 .. h.M |-> IF k <= m.alen THEN k ELSE ub.garbage],
     !.flags = @ \cup {"p7H_MAP"}
                 \cup (IF m.rf.alloc THEN {"p7H_RF"} ELSE {})
                 \cup (IF m.ss_cons.alloc THEN {"p7H_CS"} ELSE {})
                 \cup (IF m.sa_cons.alloc THEN {"p7H_CA"} ELSE {})]

(***************************************************************************)
(* profillic_p7_Profillicmodelmaker (ProfileToHMM)                         *)
(***************************************************************************)
\* a wrong test for the last position: it never holds inside the loop
modelmaker_is_last_off_by_one(pos_i, len) == pos_i = len

\* if( pos_i == ( profile.length() - 1 ) ): the last position uses post-align
modelmaker_is_last(pos_i, len) == pos_i = len - 1

\* an interior row with the two insert transitions exchanged
modelmaker_interior_row_swapped(prof, row) ==
  [row EXCEPT
     ![p7H_MM] = toDouble(prof.fromMatch.toMatch),
     ![p7H_MI] = toDouble(prof.fromMatch.toInsertion),
     ![p7H_MD] = toDouble(prof.fromMatch.toDeletion),
     ![p7H_IM] = toDouble(prof.fromInsertion.toInsertion),
     ![p7H_II] = toDouble(prof.fromInsertion.toMatch),
     ![p7H_DM] = toDouble(prof.fromDeletion.toMatch),
     ![p7H_DD] = toDouble(prof.fromDeletion.toDeletion)]

\* the row of a position that is not the last: the shared interior groups
modelmaker_interior_row(prof, row) ==
  [row EXCEPT
     ![p7H_MM] = toDouble(prof.fromMatch.toMatch),
     ![p7H_MI] = toDouble(prof.fromMatch.toInsertion),
     ![p7H_MD] = toDouble(prof.fromMatch.toDeletion),
     ![p7H_IM] = toDouble(prof.fromInsertion.toMatch),
     ![p7H_II] = toDouble(prof.fromInsertion.toInsertion),
     ![p7H_DM] = toDouble(prof.fromDeletion.toMatch),
     ![p7H_DD] = toDouble(prof.fromDeletion.toDeletion)]

\* the body of  for( pos_i = 0; pos_i < profile.length(); pos_i++ )
RECURSIVE modelmaker_positions(_, _, _, _)
modelmaker_positions(a, prof, h, pos_i) ==
  IF pos_i >= prof.length THEN h
  ELSE
    LET last == modelmaker_is_last(pos_i, prof.length)
        k == pos_i + 1
        h1 == [h EXCEPT
                 !.mat[k] = StoreEmission(a, @, prof.Match[pos_i], 0),
                 !.ins[k] = IF last THEN StoreEmission(a, @, prof.PostAlignInsertion, 0)
                            ELSE StoreEmission(a, @, prof.Insertion, 0)]
        h2 == IF last
              THEN [h1 EXCEPT
                      !.t[k] = [@ EXCEPT
                                  ![p7H_IM] = toDouble(prof.fromPostAlign.toTerminal),
                                  ![p7H_II] = toDouble(prof.fromPostAlign.toPostAlign),
                                  ![p7H_MM] = toDouble(prof.fromPostAlign.toTerminal),
                                  ![p7H_MI] = toDouble(prof.fromPostAlign.toPostAlign)]]
              ELSE [h1 EXCEPT !.t[k] = modelmaker_interior_row(prof, @)]
    IN modelmaker_positions(a, prof, h2, pos_i + 1)

\* position 0 written without folding the pre-align loop into the begin transitions
modelmaker_begin_unscaled(a, prof, h) ==
  LET mi == toDouble(prof.fromPreAlign.toPreAlign)
  IN [h EXCEPT
        !.t[0] = [@ EXCEPT
                    ![p7H_MI] = mi,
                    ![p7H_II] = mi,
                    ![p7H_IM] = RSub(One, mi),
                    ![p7H_MM] = toDouble(prof.fromBegin.toMatch),
                    ![p7H_MD] = toDouble(prof.fromBegin.toDeletion)],
        !.ins[0] = StoreEmission(a, @, prof.PreAlignInsertion, 0),
        !.mat[0] = [res_i \in Residues |-> IF res_i = 0 THEN One ELSE Zero]]

\* position 0 of the model: fromPreAlign, PreAlignInsertion, fromBegin, mat[0]
modelmaker_begin(a, prof, h) ==
  LET mi == toDouble(prof.fromPreAlign.toPreAlign)
  IN [h EXCEPT
        !.t[0] = [@ EXCEPT
                    ![p7H_MI] = mi,
                    ![p7H_II] = mi,
                    ![p7H_IM] = RSub(One, mi),
                    ![p7H_MM] = toDouble(RMul(RSub(One, mi), prof.fromBegin.toMatch)),
                    ![p7H_MD] = toDouble(RMul(RSub(One, mi), prof.fromBegin.toDeletion))],
        !.ins[0] = StoreEmission(a, @, prof.PreAlignInsertion, 0),
        !.mat[0] = [res_i \in Residues |-> IF res_i = 0 THEN One ELSE Zero]]

\* assert( hmm->ins[ pos_i + 1 ][ r ] == hmm->ins[ 0 ][ r ] ) at the last position
LastInsertAssertion(a, h) ==
  \A res_i \in Residues :
     REq(h.ins[h.M][DigitizeSymbol(a, res_i)], h.ins[0][DigitizeSymbol(a, res_i)])

\* the MSA's #=RF line is reset to all match columns
reset_rf(m) ==
  [m EXCEPT !.rf = [alloc |-> TRUE, s |-> [apos \in 1 .. m.alen |-> "x"]]]

\* a model maker that forgets the empty-profile test
modelmaker_is_empty_unchecked(prof) == FALSE

\* M = profile.length(); if (M == 0) ...
modelmaker_is_empty(prof) == prof.length = 0

\* the result: [status, ret_hmm, msa].  ret is *ret_hmm on entry, mem_ok says
\* whether p7_hmm_Create succeeds, ndebug whether assert() is compiled out.
profillic_p7_Profillicmodelmaker(a, m, prof, ret, mem_ok, ndebug, ub) ==
  IF modelmaker_is_empty(prof) THEN [status |-> eslENORESULT, ret_hmm |-> NULL, msa |-> m]
  ELSE IF ~mem_ok THEN [status |-> eslEMEM, ret_hmm |-> NULL, msa |-> m]
  ELSE
    LET h0 == modelmaker_begin(a, prof, ZeroHMM(prof.length))
        h1 == modelmaker_positions(a, prof, h0, 0)
        h2 == [h1 EXCEPT !.nseq = m.nseq, !.eff_nseq = m.nseq]
    IN IF ~ndebug /\ ~LastInsertAssertion(a, h1)
       THEN [status |-> SIGABRT, ret_hmm |-> ret, msa |-> m]
       ELSE IF annotate_model_overflows(h2, m) /\ ub.overflow = "SIGSEGV"
       THEN [status |-> SIGSEGV, ret_hmm |-> ret, msa |-> m]
       ELSE [status |-> eslOK,
             ret_hmm |-> profillic_annotate_model(h2, m, ub),
             msa |-> reset_rf(m)]

(***************************************************************************)
(* profillic-hmmunifytransitions: one pass of the read loop                *)
(***************************************************************************)
\* for( k = 1; k < hmm->M; k++ ) esl_vec_FAdd( average, hmm->t[k] )
RECURSIVE sum_internal_transitions(_, _, _)
sum_internal_transitions(h, k, acc) ==
  IF k >= h.M THEN acc
  ELSE sum_internal_transitions(h, k + 1, esl_vec_FAdd(acc, h.t[k]))

\* the sum normalised as one vector of seven instead of three groups
average_internal_transitions_one_group(h) ==
  esl_vec_FNorm(sum_internal_transitions(h, 1, ZeroRow), 0, p7H_NTRANSITIONS)

average_internal_transitions(h) ==
  esl_vec_FNorm(
    esl_vec_FNorm(
      esl_vec_FNorm(sum_internal_transitions(h, 1, ZeroRow), 0, 3),
      3, 2),
    5, 2)

\* the copy loop running through position M: k <= hmm->M
RECURSIVE set_internal_transitions_through_last(_, _, _)
set_internal_transitions_through_last(h, avg, k) ==
  IF k > h.M THEN h
  ELSE set_internal_transitions_through_last([h EXCEPT !.t[k] = avg], avg, k + 1)

\* for( k = 1; k < hmm->M; k++ ) esl_vec_FCopy( average, hmm->t[k] )
RECURSIVE set_internal_transitions(_, _, _)
set_internal_transitions(h, avg, k) ==
  IF k >= h.M THEN h
  ELSE set_internal_transitions([h EXCEPT !.t[k] = avg], avg, k + 1)

\* the average taken over positions 0..M-1 instead of 1..M-1
Unify_sum_from_begin(h) ==
  set_internal_transitions(h,
    esl_vec_FNorm(esl_vec_FNorm(esl_vec_FNorm(
      sum_internal_transitions(h, 0, ZeroRow), 0, 3), 3, 2), 5, 2), 1)

Unify(h) == set_internal_transitions(h, average_internal_transitions(h), 1)

\* esl_vec_FValidate: a probability vector
IsPVector(v, lo, hi) ==
  /\ \A x \in lo .. hi : RLe(Zero, v[x]) /\ RLe(v[x], One)
  /\ VSum(v, lo, hi) = One

p7_hmm_Validate(h) ==
  IF /\ h.M >= 1
     /\ \A k \in 0 .. h.M :
          /\ IsPVector(h.mat[k], 0, K - 1)
          /\ IsPVector(h.ins[k], 0, K - 1)
          /\ IsPVector(h.t[k], 0, 2)
          /\ IsPVector(h.t[k], 3, 4)
          /\ IsPVector(h.t[k], 5, 6)
  THEN eslOK ELSE eslFAIL

(***************************************************************************)
(* profillic-hmmcopytransitions: emissions of hmm, transitions of transhmm *)
(***************************************************************************)
\* for( k = 1; k < transhmm->M; k++ ) esl_vec_FAdd( average, transhmm->t[k] )
\* and the three esl_vec_FNorm calls
copy_average_plain_sum(th) == sum_internal_transitions(th, 1, ZeroRow)

copy_average_internal_transitions(th) ==
  esl_vec_FNorm(
    esl_vec_FNorm(
      esl_vec_FNorm(sum_internal_transitions(th, 1, ZeroRow), 0, 3),
      3, 2),
    5, 2)

\* the index of the row read by the last esl_vec_FCopy: transhmm->t[ hmm->M ]
copy_last_source_index_of_target(h, th) == h.M

\* the index of the row read by the last esl_vec_FCopy: transhmm->t[ transhmm->M ]
copy_last_source_index(h, th) == th.M

\* a row of a model's t array; outside 0..M the read yields whatever follows
\* the array, here any of the rows an HMM can hold
RowsAt(h, k) == IF k \in 0 .. h.M THEN {h.t[k]} ELSE {ZeroRow, h.t[0]}

\* every index into t[] that the pass uses, with the model it indexes
HybridizeAccesses(h, th) ==
  { [model |-> "transhmm", k |-> k, M |-> th.M] : k \in 1 .. (th.M - 1) }
  \cup { [model |-> "hmm", k |-> k, M |-> h.M] : k \in 1 .. (h.M - 1) }
  \cup { [model |-> "transhmm", k |-> 0, M |-> th.M],
         [model |-> "hmm", k |-> 0, M |-> h.M],
         [model |-> "transhmm", k |-> copy_last_source_index(h, th), M |-> th.M],
         [model |-> "hmm", k |-> h.M, M |-> h.M] }

\* the models the pass can leave in hmm (one unless a read went out of bounds)
Hybridize(h, th) ==
  LET averaged == set_internal_transitions(h, copy_average_internal_transitions(th), 1)
      first == [averaged EXCEPT !.t[0] = th.t[0]]
  IN { [first EXCEPT !.t[h.M] = last] : last \in RowsAt(th, copy_last_source_index(h, th)) }

(***************************************************************************)
(* Inputs: HMMs as an HMM file holds them (probability models obeying the  *)
(* Plan7 boundary conventions) and galosh profiles as a profile file holds *)
(* them.                                                                   *)
(***************************************************************************)
\* a transition row given in quarters
Row(q) == [x \in Slots |-> Rat(q[x + 1], 4)]

Uniform == [res_i \in Residues |-> Rat(1, K)]
Skewed == [res_i \in Residues |-> IF res_i = 0 THEN Rat(3, 4) ELSE Rat(1, 4 * (K - 1))]
Basis == [res_i \in Residues |-> IF res_i = 0 THEN One ELSE Zero]
EmissionInputs == {Uniform, Skewed}

\* position 0: B->M/I/D, I0->M/I, and the unused delete pair (1,0)
BeginRows == { Row(<<2, 1, 1, 2, 2, 4, 0>>),
               Row(<<3, 1, 0, 3, 1, 4, 0>>),
               Row(<<0, 4, 0, 3, 1, 4, 0>>) }
\* positions 1..M-1
InteriorRows == { Row(<<2, 1, 1, 2, 2, 3, 1>>),
                  Row(<<3, 0, 1, 1, 3, 2, 2>>) }
\* position M: no M->D, D->E forced
EndRows == { Row(<<3, 1, 0, 3, 1, 4, 0>>),
             Row(<<1, 3, 0, 2, 2, 4, 0>>) }

\* the choice at an interior or last position: its row, then mat and ins
EmissionPairs == { <<Skewed, Uniform>>, <<Uniform, Skewed>> }

HMMsOfLength(M) ==
  IF M = 0
  THEN { [M |-> 0, t |-> [k \in {0} |-> b], mat |-> [k \in {0} |-> Basis],
          ins |-> [k \in {0} |-> i0]] :
           b \in BeginRows, i0 \in EmissionInputs }
  ELSE { [M |-> M,
          t |-> [k \in 0 .. M |-> IF k = 0 THEN b ELSE IF k = M THEN e ELSE mid[k][1]],
          mat |-> [k \in 0 .. M |-> IF k = 0 THEN Basis ELSE IF k = M THEN ee[1] ELSE mid[k][2][1]],
          ins |-> [k \in 0 .. M |-> IF k = 0 THEN i0 ELSE IF k = M THEN ee[2] ELSE mid[k][2][2]]] :
           b \in BeginRows, i0 \in EmissionInputs,
           e \in EndRows, ee \in EmissionPairs,
           mid \in [1 .. (M - 1) -> InteriorRows \X EmissionPairs] }

HMMInputs == UNION { HMMsOfLength(M) : M \in 0 .. MaxM }

\* the interior parameters of a profile: fromMatch, fromInsertion, fromDeletion
InteriorGroups ==
  { [fromMatch |-> [toMatch |-> Rat(2, 4), toInsertion |-> Rat(1, 4), toDeletion |-> Rat(1, 4)],
     fromInsertion |-> [toMatch |-> Rat(3, 4), toInsertion |-> Rat(1, 4)],
     fromDeletion |-> [toMatch |-> Rat(1, 8), toDeletion |-> Rat(7, 8)]],
    [fromMatch |-> [toMatch |-> Rat(7, 8), toInsertion |-> Zero, toDeletion |-> Rat(1, 8)],
     fromInsertion |-> [toMatch |-> Rat(1, 2), toInsertion |-> Rat(1, 2)],
     fromDeletion |-> [toMatch |-> Rat(3, 8), toDeletion |-> Rat(5, 8)]] }

ProfilesOfLength(len) ==
  { [length |-> len,
     Match |-> mt,
     PreAlignInsertion |-> pre,
     Insertion |-> mid,
     PostAlignInsertion |-> post,
     fromPreAlign |-> fpre,
     fromBegin |-> fbeg,
     fromMatch |-> g.fromMatch,
     fromInsertion |-> g.fromInsertion,
     fromDeletion |-> g.fromDeletion,
     fromPostAlign |-> fpost] :
       mt \in [0 .. (len - 1) -> EmissionInputs],
       pre \in EmissionInputs, mid \in EmissionInputs, post \in EmissionInputs,
       fpre \in { [toPreAlign |-> Rat(1, 4), toBegin |-> Rat(3, 4)],
                  [toPreAlign |-> One, toBegin |-> Zero] },
       \* the second one is a file whose fromBegin group is not normalised
       fbeg \in { [toMatch |-> Rat(3, 4), toDeletion |-> Rat(1, 4)],
                  [toMatch |-> Rat(1, 2), toDeletion |-> Rat(1, 4)] },
       g \in InteriorGroups,
       fpost \in { [toPostAlign |-> Rat(1, 4), toTerminal |-> Rat(3, 4)],
                   [toPostAlign |-> Rat(1, 2), toTerminal |-> Rat(1, 2)] } }

ProfileInputs == UNION { ProfilesOfLength(len) : len \in 0 .. MaxM }

\* the one-sequence MSA that accompanies a model of length len: with or
\* without a reference line
MSAsOfLength(len) ==
  { [nseq |-> 1, alen |-> len, name |-> [alloc |-> TRUE, s |-> <<"n">>], ax |-> << [apos \in 1 .. len |-> "A"] >>,
     wgt |-> << One >>, rf |-> rf, ss_cons |-> NullStr, sa_cons |-> NullStr] :
       rf \in { NullStr, [alloc |-> TRUE, s |-> [apos \in 1 .. len |-> "."]] } }

\* the models of the two files of profillic-hmmcopytransitions: every length,
\* every choice of rows, one emission choice for all positions
PairHMMsOfLength(M) ==
  { [M |-> M,
     t |-> [k \in 0 .. M |-> IF k = 0 THEN b ELSE IF k = M THEN e ELSE mid[k]],
     mat |-> [k \in 0 .. M |-> IF k = 0 THEN Basis ELSE ee[1]],
     ins |-> [k \in 0 .. M |-> ee[2]]] :
       b \in BeginRows, e \in EndRows, ee \in EmissionPairs,
       mid \in [1 .. (M - 1) -> InteriorRows] }

PairHMMInputs == UNION { PairHMMsOfLength(M) : M \in 1 .. MaxM }

(***************************************************************************)
(* The converter tools                                                     *)
(***************************************************************************)
CalIdle == [pc |-> "idle"]
RdIdle == [pc |-> "idle"]

NoOutputs == [opt_hmm |-> "absent", opt_trarr |-> "absent", opt_gm |-> "absent",
              opt_om |-> "absent", opt_postmsa |-> "absent"]

BuilderIdle ==
  /\ bpc = "idle" /\ bstatus = "none" /\ bhmm = NULL /\ btr = NULL
  /\ checksum = <<>> /\ out = NoOutputs /\ destroyed = <<>> /\ ran = <<>>

Init ==
  /\ abc \in {"same_order", "other_order"}
  /\ src \in {"hmm", "profile", "hmmpair"}
  /\ pc = "start"
  /\ status = "none"
  /\ ret_hmm = UNSET
  /\ outhmm = NULL
  /\ accessed = {}
  /\ cal = CalIdle /\ rd = RdIdle
  /\ transhmm \in IF src = "hmmpair" THEN PairHMMInputs ELSE {NULL}
  /\ IF src \in {"hmm", "hmmpair"}
     THEN /\ hmmfile \in IF src = "hmm" THEN HMMInputs ELSE PairHMMInputs
          /\ hmm = hmmfile
          /\ profile = ZeroProfile(0)
          /\ msa = [nseq |-> 1, alen |-> hmmfile.M, name |-> [alloc |-> TRUE, s |-> <<"n">>],
                    ax |-> << [apos \in 1 .. hmmfile.M |-> "A"] >>, wgt |-> << One >>,
                    rf |-> NullStr, ss_cons |-> NullStr, sa_cons |-> NullStr]
     ELSE /\ hmmfile = NULL
          /\ hmm = NULL
          /\ profile \in ProfileInputs
          /\ msa \in MSAsOfLength(profile.length)
  /\ BuilderIdle

\* profillic-hmmtoprofile: convert the HMM that was read into the tool's profile
HMMToProfile ==
  /\ pc = "start" /\ src = "hmm"
  /\ LET r == convert_to_galosh_profile(abc, hmm, profile)
     IN /\ profile' = r.profile
        /\ status' = r.status
  /\ pc' = "converted"
  /\ UNCHANGED <<src, abc, hmmfile, hmm, outhmm, msa, ret_hmm>>
  /\ UNCHANGED <<bldVars, copyVars, otherVars>>

\* the model maker, on a profile that was read or on the one just converted
ProfileToHMM ==
  /\ \/ pc = "start" /\ src = "profile"
     \/ pc = "converted" /\ status = eslOK
  /\ \E mem_ok \in BOOLEAN, ndebug \in BOOLEAN, ub \in UndefinedOutcomes :
       LET r == profillic_p7_Profillicmodelmaker(abc, msa, profile, ret_hmm, mem_ok, ndebug, ub)
       IN /\ ret_hmm' = r.ret_hmm
          /\ msa' = r.msa
          /\ status' = r.status
  /\ pc' = IF pc = "start" THEN "built" ELSE "roundtrip"
  /\ UNCHANGED <<src, abc, hmmfile, hmm, outhmm, profile>>
  /\ UNCHANGED <<bldVars, copyVars, otherVars>>

\* profillic-hmmunifytransitions: unify in place, validate, write
UnifyTransitions ==
  /\ pc = "start" /\ src = "hmm"
  /\ hmm' = Unify(hmm)
  /\ status' = p7_hmm_Validate(hmm')
  /\ outhmm' = IF status' = eslOK THEN hmm' ELSE outhmm
  /\ pc' = "unified"
  /\ UNCHANGED <<src, abc, hmmfile, profile, msa, ret_hmm>>
  /\ UNCHANGED <<bldVars, copyVars, otherVars>>

\* profillic-hmmunifytransitions run on the file a first run has written
UnifyAgain ==
  /\ pc = "unified" /\ status = eslOK
  /\ hmmfile' = outhmm
  /\ hmm' = Unify(outhmm)
  /\ status' = p7_hmm_Validate(hmm')
  /\ outhmm' = IF status' = eslOK THEN hmm' ELSE outhmm
  /\ pc' = "reunified"
  /\ UNCHANGED <<src, abc, profile, msa, ret_hmm>>
  /\ UNCHANGED <<bldVars, copyVars, otherVars>>

\* profillic-hmmcopytransitions: average, copy, validate, write
CopyTransitions ==
  /\ pc = "start" /\ src = "hmmpair"
  /\ hmm' \in Hybridize(hmm, transhmm)
  /\ accessed' = HybridizeAccesses(hmm, transhmm)
  /\ status' = p7_hmm_Validate(hmm')
  /\ outhmm' = IF status' = eslOK THEN hmm' ELSE outhmm
  /\ pc' = "hybridized"
  /\ UNCHANGED <<src, abc, hmmfile, profile, msa, ret_hmm, transhmm>>
  /\ UNCHANGED <<bldVars, otherVars>>

Next == HMMToProfile \/ ProfileToHMM \/ UnifyTransitions \/ UnifyAgain \/ CopyTransitions

Spec == Init /\ [][Next]_vars

(***************************************************************************)
(* The steps of profillic_p7_Builder                                       *)
(***************************************************************************)
IsMissing(sym) == sym = "~"
IsResidue(sym) == sym = "A"
\* ax[idx][apos]; columns 0 and alen+1 hold the sentinel byte
Column(seq, apos, alen) == IF apos \in 1 .. alen THEN seq[apos] ELSE "sentinel"

\* while ( XIsMissing( ax[apos] ) == missing && apos <= alen ) apos++
RECURSIVE skip_run(_, _, _, _)
skip_run(seq, apos, alen, missing) ==
  IF IsMissing(Column(seq, apos, alen)) = missing /\ apos <= alen
  THEN skip_run(seq, apos + 1, alen, missing)
  ELSE apos

\* the scan without its third loop
validate_msa_scan_two_runs(seq, alen) ==
  skip_run(seq, skip_run(seq, 1, alen, TRUE), alen, FALSE)

\* apos after the three while loops over one sequence
validate_msa_scan(seq, alen) ==
  skip_run(seq, skip_run(seq, skip_run(seq, 1, alen, TRUE), alen, FALSE), alen, TRUE)

\* the result: [status, idx]; idx is the sequence the message names (0: none)
RECURSIVE validate_msa(_, _)
validate_msa(m, idx) ==
  IF idx > m.nseq THEN [status |-> eslOK, idx |-> 0]
  ELSE IF validate_msa_scan(m.ax[idx], m.alen) # m.alen + 1
  THEN [status |-> eslEINVAL, idx |-> idx]
  ELSE validate_msa(m, idx + 1)

\* esl_msa_Checksum: a hash of the aligned residues; the model keeps the
\* hashed text itself
esl_msa_Checksum(m) == m.ax

\* esl_msa_MarkFragments with fragthresh 1/2: a sequence with fewer residues than
\* half the columns has its leading and trailing gaps turned into '~'
ResidueCount(seq) == Cardinality({apos \in DOMAIN seq : IsResidue(seq[apos])})
IsFragment(seq, alen) == 2 * ResidueCount(seq) < alen
MarkFragment(seq) ==
  [apos \in DOMAIN seq |->
     IF (\A j \in 1 .. apos : ~IsResidue(seq[j])) \/ (\A j \in apos .. Len(seq) : ~IsResidue(seq[j]))
     THEN "~" ELSE seq[apos]]
esl_msa_MarkFragments(m) ==
  [m EXCEPT !.ax = [idx \in DOMAIN m.ax |->
                      IF IsFragment(m.ax[idx], m.alen) THEN MarkFragment(m.ax[idx])
                      ELSE m.ax[idx]]]

\* p7_hmm_Scale(hmm, scale)
p7_hmm_Scale(h, scale) ==
  [h EXCEPT
     !.t = [k \in DOMAIN h.t |-> [x \in Slots |-> RMul(h.t[k][x], scale)]],
     !.mat = [k \in DOMAIN h.mat |-> [r \in Residues |-> RMul(h.mat[k][r], scale)]],
     !.ins = [k \in DOMAIN h.ins |-> [r \in Residues |-> RMul(h.ins[k][r], scale)]]]

\* the normalisation with the delete pairs of positions 0 and M normalised
\* like the others
parameterize_normalize_every_delete(h) ==
  LET M == h.M
      tmatch(k, row) == IF k < M THEN esl_vec_FNorm(row, 0, 3)
                        ELSE esl_vec_FNorm([row EXCEPT ![p7H_MD] = Zero], 0, 3)
  IN [h EXCEPT
        !.t = [k \in 0 .. M |->
                 esl_vec_FNorm(esl_vec_FNorm(tmatch(k, h.t[k]), 3, 2), 5, 2)],
        !.mat = [k \in 0 .. M |->
                   IF k = 0 THEN [r \in Residues |-> IF r = 0 THEN One ELSE Zero]
                   ELSE esl_vec_FNorm(h.mat[k], 0, K)],
        !.ins = [k \in 0 .. M |-> esl_vec_FNorm(h.ins[k], 0, K)]]

\* profillic_parameterize without priors: plain normalisation with the
\* boundary conventions
parameterize_normalize(h) ==
  LET M == h.M
      tmatch(k, row) == IF k < M THEN esl_vec_FNorm(row, 0, 3)
                        ELSE esl_vec_FNorm([row EXCEPT ![p7H_MD] = Zero], 0, 3)
      tinsert(k, row) == esl_vec_FNorm(row, 3, 2)
      tdelete(k, row) == IF k >= 1 /\ k < M THEN esl_vec_FNorm(row, 5, 2)
                         ELSE [row EXCEPT ![p7H_DM] = One, ![p7H_DD] = Zero]
  IN [h EXCEPT
        !.t = [k \in 0 .. M |-> tdelete(k, tinsert(k, tmatch(k, h.t[k])))],
        !.mat = [k \in 0 .. M |->
                   IF k = 0 THEN [r \in Residues |-> IF r = 0 THEN One ELSE Zero]
                   ELSE esl_vec_FNorm(h.mat[k], 0, K)],
        !.ins = [k \in 0 .. M |-> esl_vec_FNorm(h.ins[k], 0, K)]]

\* the count model p7_Fastmodelmaker / p7_Handmodelmaker collect from the
\* alignment: every column a match column, one count per sequence
CountModel(m) ==
  [ZeroHMM(m.alen) EXCEPT
     !.t = [k \in 0 .. m.alen |-> [x \in Slots |-> IF x = p7H_MM THEN Rat(m.nseq, 1) ELSE Zero]],
     !.mat = [k \in 0 .. m.alen |-> [r \in Residues |-> IF r = 0 /\ k >= 1 THEN Rat(m.nseq, 1) ELSE Zero]],
     !.nseq = m.nseq, !.eff_nseq = m.nseq,
     !.map = [k \in 0 .. m.alen |-> k], !.flags = {"p7H_MAP"}]

\* the build step as its header documents it: the model maker's status handed on
build_model_status_propagated(maker_status) == maker_status

\* what profillic_build_model returns after the galosh model maker has
\* returned maker_status:  status = ...Profillicmodelmaker(...); ... return eslOK;
build_model_status(maker_status) == eslOK

(***************************************************************************)
(* profillic_p7_Builder, one action per step                               *)
(***************************************************************************)
BuilderSteps == << "validate_msa", "esl_msa_Checksum", "relative_weights",
                   "esl_msa_MarkFragments", "profillic_build_model",
                   "effective_seqnumber", "profillic_parameterize", "annotate",
                   "calibrate", "make_post_msa" >>

\* a step has returned st: record it, go on or jump to ERROR
StepReturns(step, st, next) ==
  /\ ran' = Append(ran, [step |-> step, status |-> st, hmm_null |-> (bhmm = NULL)])
  /\ bstatus' = st
  /\ bpc' = IF st = eslOK THEN next ELSE "ERROR"

\* a step has dereferenced a NULL pointer
StepCrashes(step) ==
  /\ ran' = Append(ran, [step |-> step, status |-> SIGSEGV, hmm_null |-> (bhmm = NULL)])
  /\ bstatus' = SIGSEGV
  /\ bpc' = "crashed"

B_validate_msa ==
  /\ bpc = "validate_msa"
  /\ StepReturns("validate_msa", validate_msa(msa, 1).status, "esl_msa_Checksum")
  /\ UNCHANGED <<bhmm, btr, checksum, out, destroyed>>
  /\ UNCHANGED <<convVars, copyVars, otherVars>>

B_checksum ==
  /\ bpc = "esl_msa_Checksum"
  /\ \E st \in {eslOK, eslEMEM} :
       /\ StepReturns("esl_msa_Checksum", st,
                      IF msa.nseq > 1 THEN "relative_weights" ELSE "esl_msa_MarkFragments")
       /\ checksum' = IF st = eslOK THEN esl_msa_Checksum(msa) ELSE checksum
  /\ UNCHANGED <<bhmm, btr, out, destroyed>>
  /\ UNCHANGED <<convVars, copyVars, otherVars>>

\* wgt_strategy p7_WGT_NONE sets every weight to 1, p7_WGT_GIVEN keeps them,
\* the weighting algorithms compute new ones or fail
B_relative_weights ==
  /\ bpc = "relative_weights"
  /\ \E wgt_strategy \in {"p7_WGT_NONE", "p7_WGT_GIVEN", "p7_WGT_PB"}, ok \in BOOLEAN :
       LET st == IF wgt_strategy = "p7_WGT_PB" /\ ~ok THEN eslEINVAL ELSE eslOK
       IN /\ StepReturns("relative_weights", st, "esl_msa_MarkFragments")
          /\ msa' = IF wgt_strategy = "p7_WGT_GIVEN" \/ st # eslOK THEN msa
                    ELSE [msa EXCEPT !.wgt = [idx \in 1 .. msa.nseq |-> One]]
  /\ UNCHANGED <<bhmm, btr, checksum, out, destroyed>>
  /\ UNCHANGED <<src, abc, hmmfile, hmm, outhmm, profile, ret_hmm, status, pc>>
  /\ UNCHANGED <<copyVars, otherVars>>

B_mark_fragments ==
  /\ bpc = "esl_msa_MarkFragments"
  /\ StepReturns("esl_msa_MarkFragments", eslOK, "profillic_build_model")
  /\ msa' = esl_msa_MarkFragments(msa)
  /\ UNCHANGED <<bhmm, btr, checksum, out, destroyed>>
  /\ UNCHANGED <<src, abc, hmmfile, hmm, outhmm, profile, ret_hmm, status, pc>>
  /\ UNCHANGED <<copyVars, otherVars>>

\* with a profile: the galosh model maker; without: the architecture chosen by
\* arch_strategy.  status is the model maker's own status.
B_build_model ==
  /\ bpc = "profillic_build_model"
  /\ \/ /\ profile # NULL
        /\ \E mem_ok \in BOOLEAN, ndebug \in BOOLEAN, ub \in UndefinedOutcomes :
             LET r == profillic_p7_Profillicmodelmaker(abc, msa, profile, bhmm, mem_ok, ndebug, ub)
             IN /\ status' = r.status
                /\ msa' = r.msa
                /\ accessed' = IF r.status \in {eslOK, SIGSEGV}
                               THEN annotate_model_writes(ZeroHMM(profile.length), msa)
                               ELSE accessed
                /\ IF r.status \in {SIGABRT, SIGSEGV}
                   THEN /\ bhmm' = bhmm
                        /\ ran' = Append(ran, [step |-> "profillic_build_model", status |-> r.status,
                                               hmm_null |-> (bhmm = NULL)])
                        /\ bstatus' = r.status
                        /\ bpc' = "crashed"
                   ELSE /\ bhmm' = r.ret_hmm
                        /\ StepReturns("profillic_build_model", build_model_status(r.status),
                                       "effective_seqnumber")
        /\ btr' = btr
     \/ /\ profile = NULL
        /\ \E arch_strategy \in {"p7_ARCH_FAST", "p7_ARCH_HAND"},
              st \in {eslOK, eslENORESULT, eslEMEM} :
             /\ status' = st
             /\ bhmm' = IF st = eslOK THEN CountModel(msa) ELSE NULL
             /\ btr' = IF st = eslOK /\ (out.opt_trarr # "absent" \/ out.opt_postmsa # "absent")
                       THEN [traces |-> msa.nseq] ELSE btr
             /\ msa' = IF st = eslOK THEN reset_rf(msa) ELSE msa
             /\ StepReturns("profillic_build_model", st, "effective_seqnumber")
        /\ accessed' = accessed
  /\ UNCHANGED <<checksum, out, destroyed>>
  /\ UNCHANGED <<src, abc, hmmfile, hmm, outhmm, profile, ret_hmm, pc>>
  /\ UNCHANGED <<transhmm, otherVars>>

\* effn_strategy: NONE keeps nseq, SET takes bld->eset, CLUST and ENTROPY
\* compute a number or fail; every path but a failed clustering touches hmm
B_effective_seqnumber ==
  /\ bpc = "effective_seqnumber"
  /\ \E effn_strategy \in {"p7_EFFN_NONE", "p7_EFFN_SET", "p7_EFFN_CLUST", "p7_EFFN_ENTROPY"},
        ok \in BOOLEAN, eff \in 1 .. 2 :
       IF effn_strategy = "p7_EFFN_CLUST" /\ ~ok
       THEN /\ StepReturns("effective_seqnumber", eslFAIL, "profillic_parameterize")
            /\ bhmm' = bhmm
       ELSE IF bhmm = NULL
       THEN /\ StepCrashes("effective_seqnumber")
            /\ bhmm' = bhmm
       ELSE IF effn_strategy = "p7_EFFN_ENTROPY" /\ ~ok
       THEN /\ StepReturns("effective_seqnumber", eslFAIL, "profillic_parameterize")
            /\ bhmm' = bhmm
       ELSE LET e == IF effn_strategy = "p7_EFFN_NONE" THEN msa.nseq
                     ELSE IF eff <= msa.nseq \/ effn_strategy = "p7_EFFN_SET" THEN eff
                     ELSE msa.nseq
            IN /\ StepReturns("effective_seqnumber", eslOK, "profillic_parameterize")
               /\ bhmm' = p7_hmm_Scale([bhmm EXCEPT !.eff_nseq = e], Rat(e, bhmm.nseq))
  /\ UNCHANGED <<btr, checksum, out, destroyed>>
  /\ UNCHANGED <<convVars, copyVars, otherVars>>

\* with priors p7_ParameterEstimation decides; the model keeps its outcome as
\* the plain normalisation or a failure
B_parameterize ==
  /\ bpc = "profillic_parameterize"
  /\ \E use_priors \in BOOLEAN, ok \in BOOLEAN :
       IF bhmm = NULL
       THEN /\ StepCrashes("profillic_parameterize")
            /\ bhmm' = bhmm
       ELSE IF use_priors /\ ~ok
       THEN /\ StepReturns("profillic_parameterize", eslFAIL, "annotate")
            /\ bhmm' = bhmm
       ELSE /\ StepReturns("profillic_parameterize", eslOK, "annotate")
            /\ bhmm' = parameterize_normalize(bhmm)
  /\ UNCHANGED <<btr, checksum, out, destroyed>>
  /\ UNCHANGED <<convVars, copyVars, otherVars>>

\* the transfer with a pair copied as soon as its first value is set
annotate_cutoffs_first_set(m, h) ==
  LET set == { pair \in CutoffPairs : m.cutset[pair][1] }
  IN [h EXCEPT !.cutoff = [pair \in CutoffPairs |->
                             IF pair \in set THEN m.cutoff[pair] ELSE @[pair]],
               !.flags = @ \cup { p7H_CutoffFlag(pair) : pair \in set }]

\* annotate, the three cutoff lines: a pair is copied and its flag raised
\* when both of its values are set in the alignment
annotate_cutoffs(m, h) ==
  LET set == { pair \in CutoffPairs : m.cutset[pair][1] /\ m.cutset[pair][2] }
  IN [h EXCEPT !.cutoff = [pair \in CutoffPairs |->
                             IF pair \in set THEN m.cutoff[pair] ELSE @[pair]],
               !.flags = @ \cup { p7H_CutoffFlag(pair) : pair \in set }]

B_annotate ==
  /\ bpc = "annotate"
  /\ \E ok \in BOOLEAN :
       IF ~msa.name.alloc
       THEN /\ StepReturns("annotate", eslEINVAL, "calibrate")
            /\ bhmm' = bhmm
       ELSE IF bhmm = NULL
       THEN /\ StepCrashes("annotate")
            /\ bhmm' = bhmm
       ELSE IF ~ok
       THEN /\ StepReturns("annotate", eslEMEM, "calibrate")
            /\ bhmm' = bhmm
       ELSE /\ StepReturns("annotate", eslOK, "calibrate")
            /\ bhmm' = annotate_cutoffs(msa, [bhmm EXCEPT !.flags = @ \cup {"p7H_COMPO"}])
  /\ UNCHANGED <<btr, checksum, out, destroyed>>
  /\ UNCHANGED <<convVars, copyVars, otherVars>>

\* *opt_gm and *opt_om are set to NULL, then p7_Calibrate fills them or fails
B_calibrate ==
  /\ bpc = "calibrate"
  /\ \E ok \in BOOLEAN :
       LET cleared == [out EXCEPT
                         !.opt_gm = IF @ = "absent" THEN @ ELSE "NULL",
                         !.opt_om = IF @ = "absent" THEN @ ELSE "NULL"]
       IN IF bhmm = NULL
          THEN /\ StepCrashes("calibrate")
               /\ out' = cleared
          ELSE IF ~ok
          THEN /\ StepReturns("calibrate", eslFAIL, "make_post_msa")
               /\ out' = cleared
          ELSE /\ StepReturns("calibrate", eslOK, "make_post_msa")
               /\ out' = [cleared EXCEPT
                            !.opt_gm = IF @ = "absent" THEN @ ELSE "gm",
                            !.opt_om = IF @ = "absent" THEN @ ELSE "om"]
  /\ UNCHANGED <<bhmm, btr, checksum, destroyed>>
  /\ UNCHANGED <<convVars, copyVars, otherVars>>

\* nothing to do unless the caller wants the alignment; p7_tracealign_MSA
\* walks the tracebacks
B_make_post_msa ==
  /\ bpc = "make_post_msa"
  /\ \E ok \in BOOLEAN :
       IF out.opt_postmsa = "absent"
       THEN /\ StepReturns("make_post_msa", eslOK, "stamp")
            /\ out' = out
       ELSE IF btr = NULL \/ bhmm = NULL
       THEN /\ StepCrashes("make_post_msa")
            /\ out' = out
       ELSE IF ~ok
       THEN /\ StepReturns("make_post_msa", eslEMEM, "stamp")
            /\ out' = out
       ELSE /\ StepReturns("make_post_msa", eslOK, "stamp")
            /\ out' = [out EXCEPT !.opt_postmsa = "postmsa"]
  /\ UNCHANGED <<bhmm, btr, checksum, destroyed>>
  /\ UNCHANGED <<convVars, copyVars, otherVars>>

\* the return with the checksum taken from the alignment as it is now
B_return_ok_checksum_now ==
  /\ bpc = "stamp"
  /\ LET h == [bhmm EXCEPT !.checksum = esl_msa_Checksum(msa), !.flags = @ \cup {"p7H_CHKSUM"}]
     IN /\ bhmm' = h
        /\ out' = [out EXCEPT
                     !.opt_hmm = IF @ = "absent" THEN @ ELSE "hmm",
                     !.opt_trarr = IF @ = "absent" THEN @
                                   ELSE IF btr = NULL THEN "NULL" ELSE "tr"]
        /\ destroyed' = destroyed
                          \o (IF out.opt_hmm = "absent" THEN <<"hmm">> ELSE <<>>)
                          \o (IF out.opt_trarr = "absent" /\ btr # NULL THEN <<"tr">> ELSE <<>>)
  /\ bpc' = "returned"
  /\ bstatus' = eslOK
  /\ UNCHANGED <<btr, checksum, ran>>
  /\ UNCHANGED <<convVars, copyVars, otherVars>>

\* hmm->checksum = checksum; the outputs are handed over or destroyed
B_return_ok ==
  /\ bpc = "stamp"
  /\ LET h == [bhmm EXCEPT !.checksum = checksum, !.flags = @ \cup {"p7H_CHKSUM"}]
     IN /\ bhmm' = h
        /\ out' = [out EXCEPT
                     !.opt_hmm = IF @ = "absent" THEN @ ELSE "hmm",
                     !.opt_trarr = IF @ = "absent" THEN @
                                   ELSE IF btr = NULL THEN "NULL" ELSE "tr"]
        /\ destroyed' = destroyed
                          \o (IF out.opt_hmm = "absent" THEN <<"hmm">> ELSE <<>>)
                          \o (IF out.opt_trarr = "absent" /\ btr # NULL THEN <<"tr">> ELSE <<>>)
  /\ bpc' = "returned"
  /\ bstatus' = eslOK
  /\ UNCHANGED <<btr, checksum, ran>>
  /\ UNCHANGED <<convVars, copyVars, otherVars>>

\* ERROR: destroy the model, the tracebacks and whatever *opt_gm, *opt_om hold
B_error ==
  /\ bpc = "ERROR"
  /\ destroyed' = destroyed
                    \o (IF bhmm # NULL THEN <<"hmm">> ELSE <<>>)
                    \o (IF btr # NULL THEN <<"tr">> ELSE <<>>)
                    \o (IF out.opt_gm \notin {"absent", "NULL"} THEN <<out.opt_gm>> ELSE <<>>)
                    \o (IF out.opt_om \notin {"absent", "NULL"} THEN <<out.opt_om>> ELSE <<>>)
  /\ bpc' = "returned"
  /\ UNCHANGED <<bstatus, bhmm, btr, checksum, out, ran>>
  /\ UNCHANGED <<convVars, copyVars, otherVars>>

(***************************************************************************)
(* Inputs of the builder                                                   *)
(***************************************************************************)
BuilderProfiles ==
  { p \in ProfileInputs :
       /\ p.fromPreAlign.toPreAlign = Rat(1, 4)
       /\ p.fromBegin.toDeletion = Rat(1, 4) /\ p.fromBegin.toMatch = Rat(3, 4)
       /\ p.fromMatch.toMatch = Rat(2, 4)
       /\ p.fromPostAlign.toTerminal = Rat(3, 4)
       /\ p.PreAlignInsertion = Uniform /\ p.Insertion = Uniform
       /\ \A pos_i \in 0 .. (p.length - 1) : p.Match[pos_i] = Skewed }

(***************************************************************************)
(* The score cutoffs of an alignment: #=GF GA, NC and TC lines             *)
(***************************************************************************)
eslEFORMAT == "eslEFORMAT"
UnsetWeight == <<-1, 1>>     \* the -1.0 that esl_msa_Create puts in wgt[]
Tok(atom) == << atom >>

\* the cutoffs of esl_msa_Create: every value 0, none set
NoCutoffs ==
  [cutoff |-> [pair \in CutoffPairs |-> << <<0, 1>>, <<0, 1>> >>],
   cutset |-> [pair \in CutoffPairs |-> << FALSE, FALSE >>]]

\* atof on the number texts that occur in the inputs
atof(tok) ==
  IF tok = Tok("1") THEN One
  ELSE IF tok = Tok("2") THEN Rat(2, 1)
  ELSE IF tok = Tok("-1") THEN UnsetWeight
  ELSE Zero

\* what is left of a line after its last value when that is nothing but
\* two or more blanks
TrailingBlanks == Tok(" ")

\* the second esl_strtok of a cutoff line: GA and NC split at " \t\n\r", TC
\* at "\t\n\r", so that only TC takes a run of blanks for a token
\* a #=GF GA, NC or TC line that ends after its tag leaves text NULL, and
\* esl_strtok is called on it: the library either finds no token or
\* dereferences the NULL string
NullStringOutcomes == {eslEFORMAT, SIGSEGV}

gf_has_second_value(pair, line) ==
  /\ Len(line) >= 4
  /\ (line[4] = TrailingBlanks => pair = "TC")

\* parse_gf, tags GA, NC and TC: the first value is mandatory, the second
\* is stored when the second esl_strtok finds a token
parse_gf_cutoff(m, pair, line, nul) ==
  IF Len(line) < 3 THEN [status |-> nul, msa |-> m]
  ELSE IF line[3] = TrailingBlanks THEN [status |-> eslEFORMAT, msa |-> m]
  ELSE [status |-> eslOK,
        msa |-> IF gf_has_second_value(pair, line)
                THEN [m EXCEPT !.cutoff[pair] = << atof(line[3]), atof(line[4]) >>,
                               !.cutset[pair] = << TRUE, TRUE >>]
                ELSE [m EXCEPT !.cutoff[pair] = << atof(line[3]), @[2] >>,
                               !.cutset[pair] = << TRUE, @[2] >>]]

\* the cutoffs a Stockholm record's #=GF lines leave in the alignment
RECURSIVE parse_gf_cutoffs(_, _)
parse_gf_cutoffs(m, lines) ==
  IF lines = <<>> THEN m
  ELSE parse_gf_cutoffs(parse_gf_cutoff(m, lines[1][2][1], lines[1], eslEFORMAT).msa,
                        Tail(lines))

\* the #=GF cutoff lines of the alignments handed to the builder: none; GA
\* with both values; GA with the first value only and TC with the first
\* value and trailing blanks; NC with the first value only and TC with both
GfCutoffInputs ==
  { <<>>,
    << <<Tok("#=GF"), Tok("GA"), Tok("1"), Tok("2")>> >>,
    << <<Tok("#=GF"), Tok("GA"), Tok("1")>>,
       <<Tok("#=GF"), Tok("TC"), Tok("1"), TrailingBlanks>> >>,
    << <<Tok("#=GF"), Tok("NC"), Tok("2")>>,
       <<Tok("#=GF"), Tok("TC"), Tok("2"), Tok("1")>> >> }

\* the first sequence of the alignment: all residues, a leading gap, a
\* leading missing-data symbol, a trailing one, a missing-data symbol in the
\* second column
AxInputs(len) ==
  { [apos \in 1 .. len |-> "A"] }
  \cup (IF len >= 1 THEN { [apos \in 1 .. len |-> IF apos = 1 THEN "-" ELSE "A"],
                           [apos \in 1 .. len |-> IF apos = 1 THEN "~" ELSE "A"] } ELSE {})
  \cup (IF len >= 2 THEN { [apos \in 1 .. len |-> IF apos = len THEN "~" ELSE "A"] } ELSE {})
  \cup (IF len >= 3 THEN { [apos \in 1 .. len |-> IF apos = 2 THEN "~" ELSE "A"] } ELSE {})

\* the second sequence: all residues, a missing-data symbol in the second
\* column
SecondAxInputs(len) ==
  { [apos \in 1 .. len |-> "A"] }
  \cup (IF len >= 3 THEN { [apos \in 1 .. len |-> IF apos = 2 THEN "~" ELSE "A"] } ELSE {})

BuilderMSAs(len) ==
  { [nseq |-> n, alen |-> len, name |-> nm,
     ax |-> IF n = 1 THEN << first >> ELSE << first, second >>,
     wgt |-> [idx \in 1 .. n |-> One],
     rf |-> NullStr, ss_cons |-> NullStr, sa_cons |-> NullStr,
     cutoff |-> parse_gf_cutoffs(NoCutoffs, gf).cutoff,
     cutset |-> parse_gf_cutoffs(NoCutoffs, gf).cutset] :
       n \in 1 .. 2, gf \in GfCutoffInputs,
       nm \in { NullStr, [alloc |-> TRUE, s |-> <<"n">>] },
       first \in AxInputs(len),
       second \in SecondAxInputs(len) }

\* alignments one column shorter or longer than the profile they are handed
\* to the builder with: one named sequence of residues, no cutoffs
MismatchedMSAs(len) ==
  UNION { { m \in BuilderMSAs(alen) :
              /\ m.nseq = 1 /\ m.name.alloc
              /\ m.ax[1] = [apos \in 1 .. alen |-> "A"]
              /\ m.cutset = NoCutoffs.cutset } :
          alen \in {len - 1, len + 1} \cap (0 .. (MaxM + 1)) }

\* which of the optional results the caller asks for; a requested one starts
\* with whatever the caller's variable held on entry
OutputRequests ==
  { [opt_hmm |-> "entry", opt_trarr |-> "entry", opt_gm |-> "entry",
     opt_om |-> "entry", opt_postmsa |-> "entry"],
    [opt_hmm |-> "entry", opt_trarr |-> "absent", opt_gm |-> "entry",
     opt_om |-> "entry", opt_postmsa |-> "absent"],
    [opt_hmm |-> "entry", opt_trarr |-> "absent", opt_gm |-> "absent",
     opt_om |-> "absent", opt_postmsa |-> "absent"] }

InitBuilder ==
  /\ abc \in {"same_order", "other_order"}
  /\ src = "builder"
  /\ pc = "builder"
  /\ status = "none"
  /\ ret_hmm = UNSET
  /\ hmmfile = NULL /\ hmm = NULL /\ outhmm = NULL
  /\ transhmm = NULL /\ accessed = {}
  /\ cal = CalIdle /\ rd = RdIdle
  /\ \E len \in 0 .. MaxM :
       \/ /\ profile \in {NULL} \cup {p \in BuilderProfiles : p.length = len}
          /\ msa \in BuilderMSAs(len)
       \/ /\ profile \in {p \in BuilderProfiles : p.length = len}
          /\ msa \in MismatchedMSAs(len)
  /\ bpc = "validate_msa"
  /\ bstatus = "none"
  /\ bhmm = NULL /\ btr = NULL
  /\ checksum = <<>>
  /\ out \in OutputRequests
  /\ destroyed = <<>>
  /\ ran = <<>>

NextBuilder ==
  \/ B_validate_msa \/ B_checksum \/ B_relative_weights \/ B_mark_fragments
  \/ B_build_model \/ B_effective_seqnumber \/ B_parameterize \/ B_annotate
  \/ B_calibrate \/ B_make_post_msa \/ B_return_ok \/ B_error

SpecBuilder == InitBuilder /\ [][NextBuilder]_vars

(***************************************************************************)
(* Properties of the converters                                            *)
(***************************************************************************)
GroupSum(g) == SetSum(g, DOMAIN g)

Converted == pc \in {"converted", "roundtrip"} /\ src = "hmm"
Built == pc \in {"built", "roundtrip"} /\ status = eslOK
Interior(M) == 1 .. (M - 1)

\* C2: every profile that HMMToProfile returns for an HMM with M >= 1 and
\* valid rows has each of its six transition groups and each of its
\* emission distributions summing to 1.
C2_ProfileIsNormalized ==
  (pc = "converted" /\ status = eslOK /\ hmm.M >= 1) =>
     /\ GroupSum(profile.fromPreAlign) = One
     /\ GroupSum(profile.fromBegin) = One
     /\ GroupSum(profile.fromMatch) = One
     /\ GroupSum(profile.fromInsertion) = One
     /\ GroupSum(profile.fromDeletion) = One
     /\ GroupSum(profile.fromPostAlign) = One
     /\ \A pos_i \in 0 .. (profile.length - 1) : GroupSum(profile.Match[pos_i]) = One
     /\ GroupSum(profile.PreAlignInsertion) = One
     /\ GroupSum(profile.Insertion) = One
     /\ GroupSum(profile.PostAlignInsertion) = One

UniformInterior(h) == \A j, k \in Interior(h.M) : h.t[j] = h.t[k]

\* C3: an HMM whose interior rows 1..M-1 are all the same row comes back
\* from HMMToProfile followed by ProfileToHMM with that same row at every
\* interior position.
C3_RoundTripKeepsUniformInterior ==
  (pc = "roundtrip" /\ status = eslOK /\ UniformInterior(hmm)) =>
     /\ ret_hmm.M = hmm.M
     /\ \A k \in Interior(hmm.M) : \A x \in Slots : ret_hmm.t[k][x] = hmm.t[k][x]

C3_Witness ==
  /\ pc = "roundtrip" /\ status = eslOK
  /\ hmm.M >= 3 /\ UniformInterior(hmm)
  /\ hmm.t[hmm.M] # hmm.t[1]

\* C4: a converter handed a model with no match positions returns "no
\* result" and produces nothing: the model maker sets *ret_hmm to NULL and
\* leaves the MSA as it was, HMMToProfile leaves the target profile as it was.
C4_EmptyModelRefused ==
  [][ /\ (pc = "start" /\ pc' = "built" /\ profile.length = 0) =>
           (status' = eslENORESULT /\ ret_hmm' = NULL /\ msa' = msa /\ profile' = profile)
      /\ (pc = "start" /\ pc' = "converted" /\ hmm.M = 0) =>
           (status' = eslENORESULT /\ profile' = profile /\ hmm' = hmm)
    ]_vars

C4_Witness ==
  /\ pc = "built" /\ profile.length = 0 /\ status = eslENORESULT
  /\ ret_hmm = NULL /\ ~msa.rf.alloc

\* C5: position 0 of the model built from a profile: MI = II = toPreAlign,
\* IM = 1 - MI, MM and MD are fromBegin scaled by (1 - MI), ins[0] is the
\* pre-align emission, mat[0] is (1,0,...,0); with a normalised fromBegin
\* the match triplet and the insert pair each sum to 1.
C5_BeginPosition ==
  (Built /\ profile.length >= 1) =>
     LET t0 == ret_hmm.t[0]
         mi == profile.fromPreAlign.toPreAlign
     IN /\ t0[p7H_MI] = mi /\ t0[p7H_II] = mi
        /\ t0[p7H_IM] = RSub(One, t0[p7H_MI])
        /\ t0[p7H_MM] = RMul(RSub(One, t0[p7H_MI]), profile.fromBegin.toMatch)
        /\ t0[p7H_MD] = RMul(RSub(One, t0[p7H_MI]), profile.fromBegin.toDeletion)
        /\ \A res_i \in Residues :
             ret_hmm.ins[0][DigitizeSymbol(abc, res_i)] = profile.PreAlignInsertion[res_i]
        /\ ret_hmm.mat[0][0] = One
        /\ \A r \in Residues \ {0} : ret_hmm.mat[0][r] = Zero
        /\ (GroupSum(profile.fromBegin) = One) =>
              /\ VSum(t0, p7H_MM, p7H_MD) = One
              /\ VSum(t0, p7H_IM, p7H_II) = One

C5_Witness ==
  /\ pc = "built" /\ status = eslOK /\ profile.length >= 1
  /\ GroupSum(profile.fromBegin) = One
  /\ profile.fromPreAlign.toPreAlign = Rat(1, 4)
  /\ profile.Match[0] = Uniform
  /\ ret_hmm.t[0][p7H_MM] = Rat(9, 16)

\* C6: the model built from a profile of length M has M match states, its
\* match emission at k is the profile's at k-1, and every interior position
\* 1..M-1 carries fromMatch, fromInsertion, fromDeletion and the shared
\* Insertion emission, never the post-align values.
C6_InteriorBroadcast ==
  Built =>
     /\ ret_hmm.M = profile.length
     /\ DOMAIN ret_hmm.t = 0 .. profile.length
     /\ \A k \in 1 .. profile.length : \A res_i \in Residues :
          ret_hmm.mat[k][DigitizeSymbol(abc, res_i)] = profile.Match[k - 1][res_i]
     /\ \A k \in Interior(profile.length) :
          /\ ret_hmm.t[k][p7H_MM] = profile.fromMatch.toMatch
          /\ ret_hmm.t[k][p7H_MI] = profile.fromMatch.toInsertion
          /\ ret_hmm.t[k][p7H_MD] = profile.fromMatch.toDeletion
          /\ ret_hmm.t[k][p7H_IM] = profile.fromInsertion.toMatch
          /\ ret_hmm.t[k][p7H_II] = profile.fromInsertion.toInsertion
          /\ ret_hmm.t[k][p7H_DM] = profile.fromDeletion.toMatch
          /\ ret_hmm.t[k][p7H_DD] = profile.fromDeletion.toDeletion
          /\ \A res_i \in Residues :
               ret_hmm.ins[k][DigitizeSymbol(abc, res_i)] = profile.Insertion[res_i]

C6_Witness ==
  /\ pc = "built" /\ status = eslOK /\ profile.length >= 3
  /\ abc = "other_order"
  /\ profile.Insertion # profile.PostAlignInsertion
  /\ profile.Match[0] = Skewed /\ profile.Match[1] = Uniform
  /\ ret_hmm.t[1] = ret_hmm.t[2]

InteriorSlotSum(h, x) == SetSum([k \in Interior(h.M) |-> h.t[k][x]], Interior(h.M))
InteriorInsertSum(h, d) == SetSum([k \in Interior(h.M) |-> h.ins[k][d]], Interior(h.M))
\* v / total, or v when there is nothing to normalise
Share(v, total) == IF total = Zero THEN v ELSE RDiv(v, total)

C9_BoundaryParameters ==
  (pc = "converted" /\ status = eslOK) =>
     LET t0 == hmm.t[0]
         tM == hmm.t[hmm.M]
     IN /\ profile.fromPreAlign.toPreAlign = t0[p7H_II]
        /\ profile.fromPreAlign.toBegin = t0[p7H_IM]
        /\ \A res_i \in Residues :
             /\ profile.PreAlignInsertion[res_i] = hmm.ins[0][DigitizeSymbol(abc, res_i)]
             /\ profile.PostAlignInsertion[res_i] = hmm.ins[hmm.M][DigitizeSymbol(abc, res_i)]
        /\ profile.fromPostAlign.toTerminal = tM[p7H_IM]
        /\ profile.fromPostAlign.toPostAlign = RSub(One, tM[p7H_IM])
        /\ (VSum(t0, p7H_MM, p7H_MD) = One) =>
              /\ IsNum(profile.fromBegin.toMatch)
              /\ RLe(Zero, profile.fromBegin.toMatch)
              /\ RLe(profile.fromBegin.toMatch, One)
              /\ profile.fromBegin.toMatch = RDiv(t0[p7H_MM], RAdd(t0[p7H_MM], t0[p7H_MD]))
              /\ profile.fromBegin.toDeletion = RSub(One, profile.fromBegin.toMatch)

\* the group of slots a slot is normalised with
GroupOf(x) == IF x <= p7H_MD THEN {p7H_MM, p7H_MI, p7H_MD}
              ELSE IF x <= p7H_II THEN {p7H_IM, p7H_II}
              ELSE {p7H_DM, p7H_DD}

\* C10: after Unify on an HMM with M >= 2 all interior rows are the same
\* row: the sum of the original interior rows with the match triplet, the
\* insert pair and the delete pair each normalised on its own, so each of
\* the three sums to 1.
C10_UnifyAveragesInterior ==
  (pc = "unified" /\ hmmfile.M >= 2) =>
     \A k \in Interior(hmm.M) :
        /\ \A j \in Interior(hmm.M) : hmm.t[j] = hmm.t[k]
        /\ \A x \in Slots :
             hmm.t[k][x] =
               RDiv(InteriorSlotSum(hmmfile, x),
                    SetSum([y \in GroupOf(x) |-> InteriorSlotSum(hmmfile, y)], GroupOf(x)))
        /\ VSum(hmm.t[k], p7H_MM, p7H_MD) = One
        /\ VSum(hmm.t[k], p7H_IM, p7H_II) = One
        /\ VSum(hmm.t[k], p7H_DM, p7H_DD) = One

C10_Witness ==
  /\ pc = "unified" /\ hmmfile.M >= 3
  /\ hmmfile.t[1] # hmmfile.t[2]
  /\ hmm.t[1] = hmm.t[2]
  /\ hmm.t[1][p7H_MM] = Rat(5, 8)
  /\ outhmm = hmm

(***************************************************************************)
(* Properties of the builder                                               *)
(***************************************************************************)
StepIndex(step) == CHOOSE i \in 1 .. Len(BuilderSteps) : BuilderSteps[i] = step
BuildModelRan == \E i \in 1 .. Len(ran) : ran[i].step = "profillic_build_model"

\* C1: the builder runs its steps in order and stops at the first step that
\* does not return OK, returning that step's status; when the model maker
\* fails (empty profile: "no result", no model) the builder returns that
\* failure, and effective_seqnumber, parameterize, annotate and calibrate
\* never run without a model.
C1_BuilderStopsAtFirstFailure ==
  /\ \A i \in 1 .. Len(ran) :
       /\ i < Len(ran) => ran[i].status = eslOK
       /\ i < Len(ran) => StepIndex(ran[i].step) < StepIndex(ran[i + 1].step)
  /\ (bpc = "returned" /\ bstatus # eslOK) => ran[Len(ran)].status = bstatus
  /\ (BuildModelRan /\ status \notin {eslOK, SIGABRT}) =>
        /\ ran[Len(ran)].step = "profillic_build_model"
        /\ bstatus = status
  /\ \A i \in 1 .. Len(ran) :
        ran[i].step \in {"effective_seqnumber", "profillic_parameterize", "annotate", "calibrate"}
           => ~ran[i].hmm_null

(***************************************************************************)
(* profillic-hmmcalibrate: calibrate every model of a file                 *)
(***************************************************************************)
\* --seed values, and the seeds esl_randomness_CreateFast(0) may pick
SeedOptions == 0 .. 2
ArbitrarySeeds == {5, 6}

\* the generator: the seed it was initialised with and the numbers drawn since
esl_randomness_CreateFast(seed) ==
  IF seed = 0 THEN { [seed |-> a, used |-> 0] : a \in ArbitrarySeeds }
  ELSE { [seed |-> seed, used |-> 0] }
esl_randomness_GetSeed(r) == r.seed
esl_randomness_Init(r, seed) == [seed |-> seed, used |-> 0]

\* p7_Calibrate draws its simulated sequences from r; the parameters it
\* fits are a function of the model and of the numbers drawn
CalibrateDraws(h) == h.M + 1
p7_Calibrate(h, r) ==
  [r |-> [r EXCEPT !.used = @ + CalibrateDraws(h)],
   evparam |-> <<h.M, r.seed, r.used>>]

\* if( do_reseeding ) left out
reseed_after_calibration_never(r, do_reseeding) == r

\* if( do_reseeding ) esl_randomness_Init(r, esl_randomness_GetSeed(r))
reseed_after_calibration(r, do_reseeding) ==
  IF do_reseeding THEN esl_randomness_Init(r, esl_randomness_GetSeed(r)) ELSE r

\* the models of the input file: a length, and whether p7_hmm_Validate accepts it
CalModels == [M : 1 .. MaxM, valid : BOOLEAN]
RECURSIVE StreamsOfLength(_)
StreamsOfLength(n) ==
  IF n = 0 THEN { <<>> }
  ELSE { Append(st, h) : st \in StreamsOfLength(n - 1), h \in CalModels }
CalStreams == UNION { StreamsOfLength(n) : n \in 0 .. MaxStream }

ConvertersIdle ==
  /\ abc = "same_order" /\ src = "none" /\ pc = "none" /\ status = "none"
  /\ ret_hmm = UNSET /\ hmmfile = NULL /\ hmm = NULL /\ outhmm = NULL
  /\ profile = NULL /\ msa = NULL
  /\ transhmm = NULL /\ accessed = {}

InitCalibrate ==
  /\ ConvertersIdle /\ BuilderIdle /\ rd = RdIdle
  /\ \E seed \in SeedOptions, stream \in CalStreams :
       \E r \in esl_randomness_CreateFast(seed) :
         cal = [pc |-> "loop", seed |-> seed, r |-> r, do_reseeding |-> (seed # 0),
                stream |-> stream, nhmm |-> 0,
                started |-> <<>>, finished |-> <<>>, evparams |-> <<>>, written |-> <<>>,
                status |-> "none"]

\* one pass of the read loop: read, calibrate, reseed, validate, write
Cal_next_model ==
  /\ cal.pc = "loop" /\ cal.nhmm < Len(cal.stream)
  /\ \E calibrated \in BOOLEAN :
       LET h == cal.stream[cal.nhmm + 1]
           c == p7_Calibrate(h, cal.r)
           read == [cal EXCEPT !.nhmm = @ + 1, !.started = Append(@, cal.r)]
       IN IF ~calibrated
          THEN cal' = [read EXCEPT !.pc = "esl_fatal", !.status = eslFAIL]
          ELSE LET done == [read EXCEPT
                              !.r = reseed_after_calibration(c.r, cal.do_reseeding),
                              !.finished = Append(@, c.r),
                              !.evparams = Append(@, c.evparam)]
               IN IF ~h.valid
                  THEN cal' = [done EXCEPT !.pc = "returned", !.status = eslFAIL]
                  ELSE cal' = [done EXCEPT !.written = Append(@, h)]
  /\ UNCHANGED <<convVars, bldVars, copyVars, rd>>

\* p7_hmmfile_Read returns eslEOF: clean up and exit(0)
Cal_end_of_file ==
  /\ cal.pc = "loop" /\ cal.nhmm = Len(cal.stream)
  /\ cal' = [cal EXCEPT !.pc = "exit", !.status = eslOK]
  /\ UNCHANGED <<convVars, bldVars, copyVars, rd>>

NextCalibrate == Cal_next_model \/ Cal_end_of_file

SpecCalibrate == InitCalibrate /\ [][NextCalibrate]_vars

(***************************************************************************)
(* The alignment readers (profillic-esl_msa.hpp).                          *)
(*                                                                         *)
(* A line of an input file is a sequence of whitespace-delimited tokens; a *)
(* token is a sequence of atoms (characters, or a fixed character group    *)
(* such as "#=GR" or "//").  The blank line is the empty sequence.         *)
(***************************************************************************)
eslEOF == "eslEOF"

Str(text) == [alloc |-> TRUE, s |-> text]

\* strncmp(s, prefix, n) == 0 where prefix is one atom
HasPrefix(line, atom) == line # <<>> /\ line[1][1] = atom
HashAtoms == {"#", "# STOCKHOLM 1.", "#=GF", "#=GS", "#=GC", "#=GR", "#=RF", "#=CS", "#=SS", "#=SA"}
is_blankline(line) == line = <<>>

\* the value v under a local name: Body(v)
With(v, Body(_)) == Body(v)

\* a C array a[0..n-1] grown by one entry
Grow(a, v) ==
  LET n == Cardinality(DOMAIN a)
  IN [i \in 0 .. n |-> IF i < n THEN a[i] ELSE v]
EmptyArray == [i \in {} |-> 0]
\* an optional array: the NULL pointer, or an allocated array a
NullArr == [alloc |-> FALSE, a |-> EmptyArray]
Arr(a) == [alloc |-> TRUE, a |-> a]

\* esl_msa_Create / esl_msa_CreateDigital: a growable MSA without sequences
esl_msa_Create(do_digital) ==
  [nseq |-> 0, alen |-> -1, sqname |-> EmptyArray, aseq |-> EmptyArray, ax |-> EmptyArray,
   sqlen |-> EmptyArray, wgt |-> EmptyArray,
   ss |-> NullArr, sa |-> NullArr, pp |-> NullArr,
   sslen |-> NullArr, salen |-> NullArr, pplen |-> NullArr,
   ss_cons |-> NullStr, sa_cons |-> NullStr, pp_cons |-> NullStr, rf |-> NullStr,
   name |-> NullStr, flags |-> IF do_digital THEN {"eslMSA_DIGITAL"} ELSE {},
   cutoff |-> NoCutoffs.cutoff, cutset |-> NoCutoffs.cutset,
   lastidx |-> 0]

\* a residue the alphabet cannot digitise
InvalidResidue == "?"
Digitizable(text) == \A i \in 1 .. Len(text) : text[i] # InvalidResidue

\* the lookup that takes a guess inside the array for the answer
get_seqidx_trusting_guess(m, name, guess) ==
  IF guess >= 0 /\ guess < m.nseq
  THEN [msa |-> m, idx |-> guess]
  ELSE IF \E i \in 0 .. (m.nseq - 1) : m.sqname[i] = name
  THEN [msa |-> m, idx |-> CHOOSE i \in 0 .. (m.nseq - 1) : m.sqname[i] = name]
  ELSE [msa |-> [m EXCEPT !.nseq = @ + 1,
                          !.sqname = Grow(@, name),
                          !.aseq = Grow(@, NullStr), !.ax = Grow(@, NullStr),
                          !.sqlen = Grow(@, 0), !.wgt = Grow(@, UnsetWeight),
                          !.ss = IF @.alloc THEN Arr(Grow(@.a, NullStr)) ELSE @,
                          !.sa = IF @.alloc THEN Arr(Grow(@.a, NullStr)) ELSE @,
                          !.pp = IF @.alloc THEN Arr(Grow(@.a, NullStr)) ELSE @,
                          !.sslen = IF @.alloc THEN Arr(Grow(@.a, 0)) ELSE @,
                          !.salen = IF @.alloc THEN Arr(Grow(@.a, 0)) ELSE @,
                          !.pplen = IF @.alloc THEN Arr(Grow(@.a, 0)) ELSE @],
        idx |-> m.nseq]

\* get_seqidx: the index of name, stored as a new sequence if it is not there
get_seqidx(m, name, guess) ==
  IF guess >= 0 /\ guess < m.nseq /\ m.sqname[guess] = name
  THEN [msa |-> m, idx |-> guess]
  ELSE IF \E i \in 0 .. (m.nseq - 1) : m.sqname[i] = name
  THEN [msa |-> m, idx |-> CHOOSE i \in 0 .. (m.nseq - 1) : m.sqname[i] = name]
  ELSE [msa |-> [m EXCEPT !.nseq = @ + 1,
                          !.sqname = Grow(@, name),
                          !.aseq = Grow(@, NullStr), !.ax = Grow(@, NullStr),
                          !.sqlen = Grow(@, 0), !.wgt = Grow(@, UnsetWeight),
                          !.ss = IF @.alloc THEN Arr(Grow(@.a, NullStr)) ELSE @,
                          !.sa = IF @.alloc THEN Arr(Grow(@.a, NullStr)) ELSE @,
                          !.pp = IF @.alloc THEN Arr(Grow(@.a, NullStr)) ELSE @,
                          !.sslen = IF @.alloc THEN Arr(Grow(@.a, 0)) ELSE @,
                          !.salen = IF @.alloc THEN Arr(Grow(@.a, 0)) ELSE @,
                          !.pplen = IF @.alloc THEN Arr(Grow(@.a, 0)) ELSE @],
        idx |-> m.nseq]

esl_strcat(dest, text) == Str(dest.s \o text)

\* parse_gf: #=GF <tag> <text>
parse_gf(m, line, nul) ==
  IF Len(line) < 2 THEN [status |-> eslEFORMAT, msa |-> m]
  ELSE IF line[2] = Tok("ID") /\ Len(line) >= 3
  THEN [status |-> eslOK, msa |-> [m EXCEPT !.name = Str(line[3])]]
  ELSE IF line[2] = Tok("GA") THEN parse_gf_cutoff(m, "GA", line, nul)
  ELSE IF line[2] = Tok("NC") THEN parse_gf_cutoff(m, "NC", line, nul)
  ELSE IF line[2] = Tok("TC") THEN parse_gf_cutoff(m, "TC", line, nul)
  ELSE [status |-> eslOK, msa |-> m]

\* parse_gs: #=GS <seqname> <tag> <text>
parse_gs(m, line) ==
  IF Len(line) < 4 THEN [status |-> eslEFORMAT, msa |-> m]
  ELSE With(get_seqidx(m, line[2], m.lastidx + 1), LAMBDA g :
         LET m1 == [g.msa EXCEPT !.lastidx = g.idx]
         IN IF line[3] = Tok("WT")
            THEN [status |-> eslOK,
                  msa |-> [m1 EXCEPT !.wgt[g.idx] = atof(line[4]),
                                     !.flags = @ \cup {"eslMSA_HASWGTS"}]]
            ELSE [status |-> eslOK, msa |-> m1])

\* parse_gc: #=GC <tag> <aligned text>
parse_gc(m, line) ==
  IF Len(line) < 3 THEN [status |-> eslEFORMAT, msa |-> m]
  ELSE LET tag == line[2]
           text == line[3]
       IN [status |-> eslOK,
           msa |-> IF tag = Tok("SS_cons") THEN [m EXCEPT !.ss_cons = esl_strcat(@, text)]
                   ELSE IF tag = Tok("SA_cons") THEN [m EXCEPT !.sa_cons = esl_strcat(@, text)]
                   ELSE IF tag = Tok("PP_cons") THEN [m EXCEPT !.pp_cons = esl_strcat(@, text)]
                   ELSE IF tag = Tok("RF") THEN [m EXCEPT !.rf = esl_strcat(@, text)]
                   ELSE m]

\* the array of a fresh per-sequence annotation: every entry NULL, length 0
NullTrack(m) == [j \in 0 .. (m.nseq - 1) |-> NullStr]
ZeroLens(m) == [j \in 0 .. (m.nseq - 1) |-> 0]

\* parse_gr: #=GR <seqname> <featurename> <text>
parse_gr(m, line) ==
  IF Len(line) < 4 THEN [status |-> eslEFORMAT, msa |-> m]
  ELSE With(get_seqidx(m, line[2], m.lastidx), LAMBDA g :
         LET m1 == [g.msa EXCEPT !.lastidx = g.idx]
             tag == line[3]
             text == line[4]
             i == g.idx
         IN [status |-> eslOK,
             msa |->
               IF tag = Tok("SS")
               THEN LET a == IF m1.ss.alloc THEN m1.ss.a ELSE NullTrack(m1)
                        l == IF m1.ss.alloc THEN m1.sslen.a ELSE ZeroLens(m1)
                    IN [m1 EXCEPT !.ss = Arr([a EXCEPT ![i] = esl_strcat(@, text)]),
                                  !.sslen = Arr([l EXCEPT ![i] = @ + Len(text)])]
               ELSE IF tag = Tok("SA")
               THEN LET a == IF m1.sa.alloc THEN m1.sa.a ELSE NullTrack(m1)
                        l == IF m1.sa.alloc THEN m1.salen.a ELSE ZeroLens(m1)
                    IN [m1 EXCEPT !.sa = Arr([a EXCEPT ![i] = esl_strcat(@, text)]),
                                  !.salen = Arr([l EXCEPT ![i] = @ + Len(text)])]
               ELSE IF tag = Tok("PP")
               THEN LET a == IF m1.pp.alloc THEN m1.pp.a ELSE NullTrack(m1)
                        l == IF m1.pp.alloc THEN m1.pplen.a ELSE ZeroLens(m1)
                    IN [m1 EXCEPT !.pp = Arr([a EXCEPT ![i] = esl_strcat(@, text)]),
                                  !.pplen = Arr([l EXCEPT ![i] = @ + Len(text)])]
               ELSE m1])

\* parse_sequence: <name> <aligned text>
parse_sequence(m, line) ==
  IF Len(line) < 2 THEN [status |-> eslEFORMAT, msa |-> m]
  ELSE With(get_seqidx(m, line[1], m.lastidx + 1), LAMBDA g :
         LET m1 == [g.msa EXCEPT !.lastidx = g.idx]
             text == line[2]
             i == g.idx
         IN IF "eslMSA_DIGITAL" \in m1.flags
            THEN IF Digitizable(text)
                 THEN [status |-> eslOK,
                       msa |-> [m1 EXCEPT !.ax[i] = esl_strcat(@, text),
                                          !.sqlen[i] = @ + Len(text)]]
                 ELSE [status |-> eslEINVAL, msa |-> m1]
            ELSE [status |-> eslOK,
                  msa |-> [m1 EXCEPT !.aseq[i] = esl_strcat(@, text),
                                     !.sqlen[i] = @ + Len(text)]])

\* verify_parse: the checks in the order of the code; the first that fails
\* fills errbuf
NoError == [text |-> "", line |-> 0]
Present(track, idx) == track.alloc /\ track.a[idx].alloc

\* the checks of one sequence without the check of its weight
verify_parse_seq_error_weights_unchecked(m, idx, alen) ==
  IF "eslMSA_DIGITAL" \in m.flags /\ ~m.ax[idx].alloc THEN "no sequence"
  ELSE IF "eslMSA_DIGITAL" \notin m.flags /\ ~m.aseq[idx].alloc THEN "no sequence"
  ELSE IF m.sqlen[idx] # alen THEN "sequence length"
  ELSE IF Present(m.ss, idx) /\ m.sslen.a[idx] # alen THEN "GR SS length"
  ELSE IF Present(m.sa, idx) /\ m.salen.a[idx] # alen THEN "GR SA length"
  ELSE IF Present(m.pp, idx) /\ m.pplen.a[idx] # alen THEN "GR PP length"
  ELSE ""

verify_parse_seq_error(m, idx, alen) ==
  IF "eslMSA_DIGITAL" \in m.flags /\ ~m.ax[idx].alloc THEN "no sequence"
  ELSE IF "eslMSA_DIGITAL" \notin m.flags /\ ~m.aseq[idx].alloc THEN "no sequence"
  ELSE IF "eslMSA_HASWGTS" \in m.flags /\ m.wgt[idx] = UnsetWeight THEN "expected a weight"
  ELSE IF m.sqlen[idx] # alen THEN "sequence length"
  ELSE IF Present(m.ss, idx) /\ m.sslen.a[idx] # alen THEN "GR SS length"
  ELSE IF Present(m.sa, idx) /\ m.salen.a[idx] # alen THEN "GR SA length"
  ELSE IF Present(m.pp, idx) /\ m.pplen.a[idx] # alen THEN "GR PP length"
  ELSE ""

verify_parse_cons_error(m, alen) ==
  IF m.ss_cons.alloc /\ Len(m.ss_cons.s) # alen THEN "GC SS_cons length"
  ELSE IF m.sa_cons.alloc /\ Len(m.sa_cons.s) # alen THEN "GC SA_cons length"
  ELSE IF m.pp_cons.alloc /\ Len(m.pp_cons.s) # alen THEN "GC PP_cons length"
  ELSE IF m.rf.alloc /\ Len(m.rf.s) # alen THEN "GC RF length"
  ELSE ""

\* If no weights were set, set 'em all to 1.0
default_weights(m) ==
  IF "eslMSA_HASWGTS" \in m.flags THEN m.wgt
  ELSE [idx \in 0 .. (m.nseq - 1) |-> One]

verify_parse(m) ==
  IF m.nseq = 0
  THEN [status |-> eslEFORMAT, msa |-> m, errbuf |-> [text |-> "no alignment data found", line |-> 0]]
  ELSE LET alen == m.sqlen[0]
           bad == { idx \in 0 .. (m.nseq - 1) : verify_parse_seq_error(m, idx, alen) # "" }
           first == CHOOSE idx \in bad : \A j \in bad : idx <= j
       IN IF bad # {}
          THEN [status |-> eslEFORMAT, msa |-> [m EXCEPT !.alen = alen],
                errbuf |-> [text |-> verify_parse_seq_error(m, first, alen), line |-> 0,
                            seq |-> m.sqname[first]]]
          ELSE IF verify_parse_cons_error(m, alen) # ""
          THEN [status |-> eslEFORMAT, msa |-> [m EXCEPT !.alen = alen],
                errbuf |-> [text |-> verify_parse_cons_error(m, alen), line |-> 0]]
          ELSE [status |-> eslOK,
                msa |-> [m EXCEPT !.alen = alen, !.wgt = default_weights(m),
                                  !.sqlen = NULL,
                                  !.sslen = NullArr, !.salen = NullArr, !.pplen = NullArr],
                errbuf |-> NoError]

(***************************************************************************)
(* The open file: its lines, how many of them have been read (which is     *)
(* also afp->linenumber) and the stream's end-of-file indicator.           *)
(***************************************************************************)
msafile_getline(f) ==
  IF f.linenumber < Len(f.lines)
  THEN [status |-> eslOK, buf |-> f.lines[f.linenumber + 1],
        f |-> [f EXCEPT !.linenumber = @ + 1]]
  ELSE [status |-> eslEOF, buf |-> <<>>,
        f |-> [f EXCEPT !.linenumber = @ + 1, !.feof = TRUE]]

\* what a reader hands back: its status, the file, *ret_msa, the MSA it
\* destroyed (NULL if none) and afp->errbuf
ReadResult(st, f, ret, destroyed_msa, err) ==
  [status |-> st, f |-> f, ret_msa |-> ret, destroyed |-> destroyed_msa, errbuf |-> err]

\* else if (strncmp(s, "//", 2) == 0) break;
stockholm_is_terminator(line) == HasPrefix(line, "//")

\* the header test left out
stockholm_is_header_any(line) == TRUE

\* strncmp(afp->buf, "# STOCKHOLM 1.", 14) == 0
stockholm_is_header(line) == HasPrefix(line, "# STOCKHOLM 1.")

\* one body line handed to its parser
stockholm_parse_line(m, line, nul) ==
  IF HasPrefix(line, "#=GF") THEN parse_gf(m, line, nul) @@ [what |-> "bad #=GF line"]
  ELSE IF HasPrefix(line, "#=GS") THEN parse_gs(m, line) @@ [what |-> "bad #=GS line"]
  ELSE IF HasPrefix(line, "#=GC") THEN parse_gc(m, line) @@ [what |-> "bad #=GC line"]
  ELSE IF HasPrefix(line, "#=GR") THEN parse_gr(m, line) @@ [what |-> "bad #=GR line"]
  ELSE IF line # <<>> /\ line[1][1] \in HashAtoms
  THEN [status |-> eslOK, msa |-> m, what |-> "bad comment line"]
  ELSE parse_sequence(m, line) @@ [what |-> "bad sequence line"]

\* the body loop: while ((status2 = msafile_getline(afp)) == eslOK) ...
RECURSIVE stockholm_body(_, _, _)
stockholm_body(f, m, nul) ==
  With(msafile_getline(f), LAMBDA g :
    IF g.status # eslOK
    THEN [status |-> eslOK, status2 |-> g.status, f |-> g.f, msa |-> m, errbuf |-> NoError]
    ELSE IF stockholm_is_terminator(g.buf)
    THEN [status |-> eslOK, status2 |-> eslOK, f |-> g.f, msa |-> m, errbuf |-> NoError]
    ELSE IF is_blankline(g.buf) THEN stockholm_body(g.f, m, nul)
    ELSE With(stockholm_parse_line(m, g.buf, nul), LAMBDA r :
           IF r.status # eslOK
           THEN [status |-> r.status, status2 |-> eslOK, f |-> g.f, msa |-> r.msa,
                 errbuf |-> [text |-> r.what, line |-> g.f.linenumber]]
           ELSE stockholm_body(g.f, r.msa, nul)))

\* do { msafile_getline } while (is_blankline(afp->buf))
RECURSIVE skip_blank_lines(_)
skip_blank_lines(f) ==
  With(msafile_getline(f), LAMBDA g :
    IF g.status = eslOK /\ is_blankline(g.buf) THEN skip_blank_lines(g.f) ELSE g)

read_stockholm(f, do_digital, nul) ==
  IF f.feof THEN ReadResult(eslEOF, f, NULL, NULL, NoError)
  ELSE
    With(skip_blank_lines(f), LAMBDA h :
      IF h.status # eslOK
      THEN ReadResult(h.status, h.f, NULL, esl_msa_Create(do_digital), NoError)
      ELSE IF ~stockholm_is_header(h.buf)
      THEN ReadResult(eslEFORMAT, h.f, NULL, esl_msa_Create(do_digital),
                      [text |-> "missing # STOCKHOLM header", line |-> h.f.linenumber])
      ELSE
        With(stockholm_body(h.f, esl_msa_Create(do_digital), nul), LAMBDA b :
          IF b.status = SIGSEGV THEN ReadResult(SIGSEGV, b.f, NULL, NULL, NoError)
          ELSE IF b.status # eslOK THEN ReadResult(b.status, b.f, NULL, b.msa, b.errbuf)
          ELSE IF b.status2 # eslOK
          THEN ReadResult(eslEFORMAT, b.f, NULL, b.msa,
                          [text |-> "didn't find // at end of alignment",
                           line |-> b.f.linenumber])
          ELSE With(verify_parse(b.msa), LAMBDA v :
                 IF v.status # eslOK
                 THEN ReadResult(eslEFORMAT, b.f, NULL, v.msa, v.errbuf)
                 ELSE ReadResult(eslOK, b.f, v.msa, NULL, NoError))))

(***************************************************************************)
(* Aligned FASTA (read_afa)                                                *)
(***************************************************************************)
\* the message with the two lengths in each other's place
afa_length_message_swapped(seq, len, expected) ==
  [text |-> "sequence length is not equal to the expected length", line |-> 0,
   seq |-> seq, len |-> expected, expected |-> len]

\* "sequence %d length (%ld) is not equal to the expected length (%ld)"
afa_length_message(seq, len, expected) ==
  [text |-> "sequence length is not equal to the expected length", line |-> 0,
   seq |-> seq, len |-> len, expected |-> expected]

\* a header line ">name description": the name is the first token after '>'
afa_header(m, line, linenumber) ==
  LET seqidx == m.nseq
      named == Len(line[1]) > 1 \/ Len(line) >= 2
      seqname == IF Len(line[1]) > 1 THEN Tail(line[1]) ELSE line[2]
      m1 == [m EXCEPT !.nseq = @ + 1,
                      !.sqname = Grow(@, IF named THEN seqname ELSE <<>>),
                      !.aseq = Grow(@, NullStr), !.ax = Grow(@, NullStr),
                      !.sqlen = Grow(@, 0), !.wgt = Grow(@, UnsetWeight)]
  IN IF ~named
     THEN [status |-> eslEFORMAT, msa |-> m1,
           errbuf |-> [text |-> "problem reading name of sequence", line |-> linenumber]]
     ELSE IF seqidx > 1 /\ m.sqlen[seqidx - 1] # m.sqlen[0]
     THEN [status |-> eslEFORMAT, msa |-> m1,
           errbuf |-> afa_length_message(seqidx, m.sqlen[seqidx - 1], m.sqlen[0])]
     ELSE [status |-> eslOK, msa |-> m1, errbuf |-> NoError]

\* a sequence line: its tokens are appended one at a time to the current
\* sequence
RECURSIVE afa_append_tokens(_, _, _)
afa_append_tokens(m, seqidx, toks) ==
  IF toks = <<>> THEN m
  ELSE afa_append_tokens(
         IF "eslMSA_DIGITAL" \in m.flags
         THEN [m EXCEPT !.ax[seqidx] = esl_strcat(@, Head(toks)),
                        !.sqlen[seqidx] = @ + Len(Head(toks))]
         ELSE [m EXCEPT !.aseq[seqidx] = esl_strcat(@, Head(toks)),
                        !.sqlen[seqidx] = @ + Len(Head(toks))],
         seqidx, Tail(toks))

\* int len, i;  -- i is never assigned: any value; msa->sqname[i] is read
\* when a residue cannot be digitized, inside the array or outside of it
UninitialisedIndexes == {"inside", "outside"}

\* esl_abc_dsqcat fails on a line of a digital alignment
afa_dsqcat_fails(m, toks) ==
  "eslMSA_DIGITAL" \in m.flags /\ \E t \in 1 .. Len(toks) : ~Digitizable(toks[t])

\* while ((status2 = msafile_getline(afp)) == eslOK) ...
RECURSIVE afa_body(_, _, _)
afa_body(f, m, i) ==
  With(msafile_getline(f), LAMBDA g :
    IF g.status # eslOK
    THEN [status |-> eslOK, f |-> g.f, msa |-> m, errbuf |-> NoError]
    ELSE IF is_blankline(g.buf) THEN afa_body(g.f, m, i)
    ELSE IF HasPrefix(g.buf, ">")
    THEN With(afa_header(m, g.buf, g.f.linenumber), LAMBDA r :
           IF r.status # eslOK
           THEN [status |-> r.status, f |-> g.f, msa |-> r.msa, errbuf |-> r.errbuf]
           ELSE afa_body(g.f, r.msa, i))
    ELSE IF m.nseq = 0
    THEN [status |-> eslEFORMAT, f |-> g.f, msa |-> m,
          errbuf |-> [text |-> "first non-whitespace character is not a '>'",
                      line |-> g.f.linenumber]]
    ELSE IF afa_dsqcat_fails(m, g.buf)
    THEN [status |-> IF i = "inside" THEN eslEFORMAT ELSE SIGSEGV, f |-> g.f, msa |-> m,
          errbuf |-> [text |-> "invalid char", line |-> 0]]
    ELSE afa_body(g.f, afa_append_tokens(m, m.nseq - 1, g.buf), i))

read_afa(f, do_digital, i) ==
  IF f.feof THEN ReadResult(eslEOF, f, NULL, NULL, NoError)
  ELSE
    With(afa_body(f, esl_msa_Create(do_digital), i), LAMBDA b :
      LET seqidx == b.msa.nseq - 1
      IN IF b.status = SIGSEGV THEN ReadResult(SIGSEGV, b.f, NULL, NULL, NoError)
         ELSE IF b.status # eslOK THEN ReadResult(b.status, b.f, NULL, b.msa, b.errbuf)
         ELSE IF b.msa.nseq > 1 /\ b.msa.sqlen[seqidx] # b.msa.sqlen[0]
         THEN ReadResult(eslEINVAL, b.f, NULL, b.msa,
                         afa_length_message(seqidx + 1, b.msa.sqlen[seqidx],
                                            b.msa.sqlen[0]))
         ELSE With(verify_parse(b.msa), LAMBDA v :
                IF v.status # eslOK
                THEN ReadResult(eslEFORMAT, b.f, NULL, v.msa, v.errbuf)
                ELSE IF v.msa.nseq = 0
                THEN ReadResult(eslEOF, b.f, NULL, v.msa, NoError)
                ELSE ReadResult(eslOK, b.f, v.msa, NULL, NoError)))


(***************************************************************************)
(* SELEX (read_selex).  A SELEX line is << head, gap, data >>: the first   *)
(* token, the number of blanks after it, and the text from the first to    *)
(* the last non-blank character after them (it may hold blanks, SELEX's    *)
(* gaps); data is << >> on a line that has nothing after its head.         *)
(***************************************************************************)
eslMSA_LINE_SQ == "SQ"
eslMSA_LINE_RF == "RF"
eslMSA_LINE_CS == "CS"
eslMSA_LINE_SS == "SS"
eslMSA_LINE_SA == "SA"

AtomWidth(atom) == IF atom \in {"#=RF", "#=CS", "#=SS", "#=SA"} THEN 4 ELSE 1
RECURSIVE TokWidth(_)
TokWidth(tok) == IF tok = <<>> THEN 0 ELSE AtomWidth(Head(tok)) + TokWidth(Tail(tok))

\* *afp->buf == '#' && strncmp(afp->buf, "#=", 2) != 0
selex_is_comment(line) == HasPrefix(line, "#")

\* do { msafile_getline } while (blank line or comment)
RECURSIVE selex_skip_to_block(_)
selex_skip_to_block(f) ==
  With(msafile_getline(f), LAMBDA g :
    IF g.status = eslOK /\ (is_blankline(g.buf) \/ selex_is_comment(g.buf))
    THEN selex_skip_to_block(g.f) ELSE g)

\* do { msafile_getline } while (comment)
RECURSIVE selex_skip_comments(_)
selex_skip_comments(f) ==
  With(msafile_getline(f), LAMBDA g :
    IF g.status = eslOK /\ selex_is_comment(g.buf) THEN selex_skip_comments(g.f) ELSE g)

\* the lines of a block, from the one in afp->buf to a blank line or EOF
RECURSIVE selex_collect(_, _)
selex_collect(g, line) ==
  With(selex_skip_comments(g.f), LAMBDA n :
    IF n.status = eslOK /\ ~is_blankline(n.buf)
    THEN selex_collect(n, Append(line, g.buf))
    ELSE [f |-> n.f, line |-> Append(line, g.buf)])

\* if (*lalloc_p != 0 && *nlines_p != nlines)
block_count_differs(lalloc, nlines_p, nlines) == lalloc # 0 /\ nlines_p # nlines

\* read_block: lalloc is 0 for the first block; nlines_p is the number of
\* lines of the first block
read_block(f, lalloc, nlines_p) ==
  With(selex_skip_to_block(f), LAMBDA g :
    IF g.status = eslEOF /\ lalloc = 0
    THEN [status |-> eslEOF, f |-> g.f, line |-> <<>>, starti |-> 0,
          errbuf |-> [text |-> "no alignment data found", line |-> 0]]
    ELSE IF g.status # eslOK
    THEN [status |-> g.status, f |-> g.f, line |-> <<>>, starti |-> 0, errbuf |-> NoError]
    ELSE With(selex_collect(g, <<>>), LAMBDA c :
           IF block_count_differs(lalloc, nlines_p, Len(c.line))
           THEN [status |-> eslEFORMAT, f |-> c.f, line |-> <<>>, starti |-> 0,
                 errbuf |-> [text |-> "expected a different number of lines in block",
                             line |-> c.f.linenumber]]
           ELSE [status |-> eslOK, f |-> c.f, line |-> c.line, starti |-> g.f.linenumber,
                 errbuf |-> NoError]))

\* the type of a line, by its first four characters
selex_line_type(l) ==
  IF HasPrefix(l, "#=RF") THEN eslMSA_LINE_RF
  ELSE IF HasPrefix(l, "#=CS") THEN eslMSA_LINE_CS
  ELSE IF HasPrefix(l, "#=SS") THEN eslMSA_LINE_SS
  ELSE IF HasPrefix(l, "#=SA") THEN eslMSA_LINE_SA
  ELSE eslMSA_LINE_SQ

\* the first loop of first_selex_block from line li (1-based here) with the
\* counters c; the result is the first complaint, or "" with the counters
RECURSIVE first_block_scan(_, _, _, _)
first_block_scan(line, li, starti, c) ==
  IF li > Len(line) THEN [text |-> "", line |-> 0, c |-> c]
  ELSE
    LET t == selex_line_type(line[li])
        c1 == IF t = eslMSA_LINE_RF THEN [c EXCEPT !.nrf = @ + 1]
              ELSE IF t = eslMSA_LINE_CS THEN [c EXCEPT !.ncs = @ + 1]
              ELSE IF t = eslMSA_LINE_SS THEN [c EXCEPT !.nss = @ + 1, !.has_ss = TRUE]
              ELSE IF t = eslMSA_LINE_SA THEN [c EXCEPT !.nsa = @ + 1, !.has_sa = TRUE]
              ELSE [c EXCEPT !.nseq = @ + 1, !.nss = 0, !.nsa = 0]
        what == IF c1.nss > 0 /\ c1.nseq = 0 THEN "#=SS must follow a sequence"
                ELSE IF c1.nsa > 0 /\ c1.nseq = 0 THEN "#=SA must follow a sequence"
                ELSE IF c1.nrf > 1 THEN "too many #=RF lines for block"
                ELSE IF c1.ncs > 1 THEN "too many #=CS lines for block"
                ELSE IF c1.nss > 1 THEN "too many #=SS lines for seq"
                ELSE IF c1.nsa > 1 THEN "too many #=SA lines for seq"
                ELSE ""
    IN IF what # "" THEN [text |-> what, line |-> (li - 1) + starti, c |-> c1]
       ELSE first_block_scan(line, li + 1, starti, c1)

\* the sequence lines of a block, in order
SeqLines(line) == SelectSeq(line, LAMBDA l : selex_line_type(l) = eslMSA_LINE_SQ)

\* lpos[li]: the column of the first residue, -1 on a line without data
selex_lpos(l) == IF l[3] = <<>> THEN -1 ELSE TokWidth(l[1]) + l[2]
\* rpos[li]: the column of the last non-blank character
selex_rpos(l) == IF l[3] = <<>> THEN TokWidth(l[1]) - 1
                 ELSE TokWidth(l[1]) + l[2] + Len(l[3]) - 1

first_selex_block(starti, line) ==
  With(first_block_scan(line, 1, starti,
         [nseq |-> 0, nrf |-> 0, ncs |-> 0, nss |-> 0, nsa |-> 0,
          has_ss |-> FALSE, has_sa |-> FALSE]), LAMBDA scan :
    With(SeqLines(line), LAMBDA seqs :
      LET nseq == scan.c.nseq
      IN IF scan.text # ""
         THEN [status |-> eslEFORMAT, msa |-> NULL, ltype |-> <<>>,
               errbuf |-> [text |-> scan.text, line |-> scan.line]]
         ELSE [status |-> eslOK,
               msa |-> [esl_msa_Create(FALSE) EXCEPT
                          !.nseq = nseq, !.alen = 0,
                          !.sqname = [i \in 0 .. (nseq - 1) |-> seqs[i + 1][1]],
                          !.aseq = [i \in 0 .. (nseq - 1) |-> NullStr],
                          !.ax = [i \in 0 .. (nseq - 1) |-> NullStr],
                          !.sqlen = [i \in 0 .. (nseq - 1) |-> 0],
                          !.wgt = [i \in 0 .. (nseq - 1) |-> UnsetWeight],
                          !.ss = IF scan.c.has_ss
                                 THEN Arr([i \in 0 .. (nseq - 1) |-> NullStr]) ELSE NullArr,
                          !.sa = IF scan.c.has_sa
                                 THEN Arr([i \in 0 .. (nseq - 1) |-> NullStr]) ELSE NullArr],
               ltype |-> [li \in 1 .. Len(line) |-> selex_line_type(line[li])],
               errbuf |-> NoError]))

\* strcmp(tok, msa->sqname[i]) != 0
selex_name_differs(tok, sqname) == tok # sqname

\* the number of sequence lines among line[1..li]
RECURSIVE SeqLinesUpTo(_, _)
SeqLinesUpTo(ltype, li) ==
  IF li = 0 THEN 0
  ELSE SeqLinesUpTo(ltype, li - 1) + (IF ltype[li] = eslMSA_LINE_SQ THEN 1 ELSE 0)

other_selex_block(starti, line, m, ltype) ==
  LET badtype == { li \in 1 .. Len(line) : selex_line_type(line[li]) # ltype[li] }
      badname == { li \in 1 .. Len(line) :
                     /\ ltype[li] = eslMSA_LINE_SQ
                     /\ selex_name_differs(line[li][1], m.sqname[SeqLinesUpTo(ltype, li) - 1]) }
      first(S) == CHOOSE li \in S : \A lj \in S : li <= lj
  IN IF badtype # {}
     THEN [status |-> eslEFORMAT,
           errbuf |-> [text |-> "line isn't in expected order",
                       line |-> (first(badtype) - 1) + starti]]
     ELSE IF badname # {}
     THEN [status |-> eslEFORMAT,
           errbuf |-> [text |-> "expected another seq name",
                       line |-> (first(badname) - 1) + starti]]
     ELSE [status |-> eslOK, errbuf |-> NoError]

Blanks(n) == [i \in 1 .. n |-> " "]
SetMin(S) == CHOOSE x \in S : \A y \in S : x <= y
SetMax(S) == CHOOSE x \in S : \A y \in S : x >= y

\* append_selex_block: every line's text is padded to the block's width and
\* appended to its track
RECURSIVE append_selex_lines(_, _, _, _, _, _)
append_selex_lines(m, line, ltype, li, leftmost, rightmost) ==
  IF li > Len(line) THEN m
  ELSE
    LET l == line[li]
        nadd == rightmost - leftmost + 1
        lpos == selex_lpos(l)
        rpos == selex_rpos(l)
        nleft == IF lpos # -1 THEN lpos - leftmost ELSE nadd
        nright == IF lpos # -1 THEN rightmost - rpos ELSE 0
        text == Blanks(nleft) \o l[3] \o Blanks(nright)
        i == SeqLinesUpTo(ltype, li)
        m1 == IF ltype[li] = eslMSA_LINE_SQ THEN [m EXCEPT !.aseq[i - 1] = esl_strcat(@, text)]
              ELSE IF ltype[li] = eslMSA_LINE_RF THEN [m EXCEPT !.rf = esl_strcat(@, text)]
              ELSE IF ltype[li] = eslMSA_LINE_CS THEN [m EXCEPT !.ss_cons = esl_strcat(@, text)]
              ELSE IF ltype[li] = eslMSA_LINE_SS THEN [m EXCEPT !.ss.a[i - 1] = esl_strcat(@, text)]
              ELSE [m EXCEPT !.sa.a[i - 1] = esl_strcat(@, text)]
    IN append_selex_lines(m1, line, ltype, li + 1, leftmost, rightmost)

\* the block appended with its width taken from the sequence lines alone
append_selex_block_seq_width(m, line, ltype) ==
  With({ li \in 1 .. Len(line) : selex_lpos(line[li]) # -1 /\ ltype[li] = eslMSA_LINE_SQ },
       LAMBDA withdata :
    IF withdata = {} THEN m
    ELSE With(SetMin({ selex_lpos(line[li]) : li \in withdata }), LAMBDA leftmost :
           With(SetMax({ selex_rpos(line[li]) : li \in withdata }), LAMBDA rightmost :
             [append_selex_lines(m, line, ltype, 1, leftmost, rightmost)
                EXCEPT !.alen = @ + (rightmost - leftmost + 1)])))

append_selex_block(m, line, ltype) ==
  With({ li \in 1 .. Len(line) : selex_lpos(line[li]) # -1 }, LAMBDA withdata :
    IF withdata = {} THEN m
    ELSE With(SetMin({ selex_lpos(line[li]) : li \in withdata }), LAMBDA leftmost :
           With(SetMax({ selex_rpos(line[li]) : li \in withdata }), LAMBDA rightmost :
             [append_selex_lines(m, line, ltype, 1, leftmost, rightmost)
                EXCEPT !.alen = @ + (rightmost - leftmost + 1)])))

\* SELEX format allows ' ' as gaps, but easel doesn't
DotGaps(str) ==
  IF str.alloc THEN Str([apos \in 1 .. Len(str.s) |-> IF str.s[apos] = " " THEN "." ELSE str.s[apos]])
  ELSE str
DotGapsTrack(track) ==
  IF track.alloc THEN Arr([i \in DOMAIN track.a |-> DotGaps(track.a[i])]) ELSE track

\* esl_msa_Digitize: every sequence is validated before any is converted
esl_msa_Digitize(m) ==
  IF \A i \in 0 .. (m.nseq - 1) : Digitizable(m.aseq[i].s)
  THEN [status |-> eslOK,
        msa |-> [m EXCEPT !.ax = m.aseq,
                          !.aseq = [i \in 0 .. (m.nseq - 1) |-> NullStr],
                          !.flags = @ \cup {"eslMSA_DIGITAL"}]]
  ELSE [status |-> eslEINVAL, msa |-> m]

\* the block loop of read_selex
RECURSIVE selex_blocks(_, _, _, _, _)
selex_blocks(f, nblocks, nlines, m, ltype) ==
  With(read_block(f, IF nblocks = 0 THEN 0 ELSE 16, nlines), LAMBDA b :
    IF b.status # eslOK
    THEN [status |-> b.status, f |-> b.f, nblocks |-> nblocks, msa |-> m, errbuf |-> b.errbuf]
    ELSE IF nblocks = 0
    THEN With(first_selex_block(b.starti, b.line), LAMBDA r :
           IF r.status # eslOK
           THEN [status |-> r.status, f |-> b.f, nblocks |-> 1, msa |-> NULL,
                 errbuf |-> r.errbuf]
           ELSE selex_blocks(b.f, 1, Len(b.line),
                             append_selex_block(r.msa, b.line, r.ltype), r.ltype))
    ELSE With(other_selex_block(b.starti, b.line, m, ltype), LAMBDA r :
           IF r.status # eslOK
           THEN [status |-> r.status, f |-> b.f, nblocks |-> nblocks + 1, msa |-> m,
                 errbuf |-> r.errbuf]
           ELSE selex_blocks(b.f, nblocks + 1, nlines,
                             append_selex_block(m, b.line, ltype), ltype)))

\* read_selex leaves *ret_msa alone on its error path: ret_msa is what the
\* caller's variable held before the call
read_selex(f, do_digital, ret_msa) ==
  IF f.feof THEN ReadResult(eslEOF, f, ret_msa, NULL, NoError)
  ELSE
    With(selex_blocks(f, 0, 0, NULL, <<>>), LAMBDA b :
      IF b.status # eslEOF \/ b.nblocks = 0
      THEN ReadResult(b.status, b.f, ret_msa, b.msa, b.errbuf)
      ELSE With([b.msa EXCEPT !.rf = DotGaps(@), !.ss_cons = DotGaps(@),
                              !.ss = DotGapsTrack(@), !.sa = DotGapsTrack(@),
                              !.aseq = [i \in DOMAIN @ |-> DotGaps(@[i])]], LAMBDA m1 :
             ReadResult(eslOK, b.f,
                        IF do_digital THEN esl_msa_Digitize(m1).msa ELSE m1,
                        NULL, NoError)))

(***************************************************************************)
(* galosh profile (profillic_read_profile)                                 *)
(***************************************************************************)
ResidueLetters == <<"A", "C", "G", "T", "U">>

\* the residue of the largest Match emission value
maximumValueType(row) == CHOOSE r \in Residues : \A q \in Residues : RLe(row[q], row[r])

\* the consensus with the first position's residue at every position
consensus_sequence_of_first(prof) ==
  [pos_i \in 1 .. prof.length |-> ResidueLetters[maximumValueType(prof.Match[0]) + 1]]

\* consensus_sequence[ pos_i ] = profile[ pos_i ][ Match ].maximumValueType();
consensus_sequence(prof) ==
  [pos_i \in 1 .. prof.length |->
     ResidueLetters[maximumValueType(prof.Match[pos_i - 1]) + 1]]

profillic_read_profile(f, do_digital) ==
  IF f.feof THEN ReadResult(eslEOF, f, NULL, NULL, NoError)
  ELSE
    LET prof == f.lines
        consensus == consensus_sequence(prof)
    IN With(verify_parse([esl_msa_Create(do_digital) EXCEPT
                            !.nseq = 1,
                            !.sqname = Grow(@, <<"Galosh Profile Consensus">>),
                            !.aseq = Grow(@, IF do_digital THEN NullStr ELSE Str(consensus)),
                            !.ax = Grow(@, IF do_digital THEN Str(consensus) ELSE NullStr),
                            !.sqlen = Grow(@, prof.length),
                            !.wgt = Grow(@, UnsetWeight),
                            !.name = Str(<<"Galosh Profile">>)]), LAMBDA v :
         IF v.status # eslOK THEN ReadResult(eslEFORMAT, f, NULL, v.msa, v.errbuf)
         ELSE ReadResult(eslOK, f, v.msa, NULL, NoError))

\* the reader of the ESLX_MSAFILE interface: the profile is read from the
\* file's name (profile_ptr->fromFile), the open stream is not touched
profillic_esl_msafile_profile_Read(f, do_digital) ==
  LET prof == f.lines
      consensus == consensus_sequence(prof)
  IN ReadResult(eslOK, f,
                [esl_msa_Create(do_digital) EXCEPT
                   !.nseq = 1,
                   !.sqname = Grow(@, <<"Galosh Profile Consensus">>),
                   !.aseq = Grow(@, IF do_digital THEN NullStr ELSE Str(consensus)),
                   !.ax = Grow(@, IF do_digital THEN Str(consensus) ELSE NullStr),
                   !.sqlen = Grow(@, prof.length),
                   !.alen = prof.length,
                   !.wgt = Grow(@, One),
                   !.name = Str(<<"Galosh Profile">>)],
                NULL, NoError)

(***************************************************************************)
(* profillic_esl_msa_Read                                                  *)
(***************************************************************************)
eslMSAFILE_STOCKHOLM == "eslMSAFILE_STOCKHOLM"
eslMSAFILE_SELEX == "eslMSAFILE_SELEX"
eslMSAFILE_AFA == "eslMSAFILE_AFA"
eslMSAFILE_PROFILLIC == "eslMSAFILE_PROFILLIC"

\* a pointer that is not NULL and does not point to a live MSA
Dangling == [dangling |-> TRUE]

\* ESL_MSA *msa;  -- the local is not initialised: any pointer value
UninitialisedPointers == {NULL, Dangling}

\* the possible outcomes of one call
profillic_esl_msa_Read(format, f, do_digital) ==
  IF format = eslMSAFILE_STOCKHOLM
  THEN { read_stockholm(f, do_digital, nul) : nul \in NullStringOutcomes }
  ELSE IF format = eslMSAFILE_AFA
  THEN { read_afa(f, do_digital, i) : i \in UninitialisedIndexes }
  ELSE IF format = eslMSAFILE_PROFILLIC THEN { profillic_read_profile(f, do_digital) }
  ELSE { read_selex(f, do_digital, local) : local \in UninitialisedPointers }

\* the same call on an ESLX_MSAFILE; every format but the galosh profile is
\* read by the library's own parsers
profillic_eslx_msafile_Read(format, f, do_digital) ==
  profillic_esl_msafile_profile_Read(f, do_digital)

(***************************************************************************)
(* Input files of the readers                                              *)
(***************************************************************************)
\* all sequences over S of length lo .. hi
RECURSIVE SeqsOfLength(_, _)
SeqsOfLength(S, n) ==
  IF n = 0 THEN { <<>> }
  ELSE { Append(q, x) : q \in SeqsOfLength(S, n - 1), x \in S }
SeqsUpTo(S, lo, hi) == UNION { SeqsOfLength(S, n) : n \in lo .. hi }

OpenFile(lines) == [lines |-> lines, linenumber |-> 0, feof |-> FALSE]

\* Stockholm lines
StockholmHeader == << <<"# STOCKHOLM 1.", "0">> >>
OtherHeader == << <<"# STOCKHOLM 2.", "0">> >>
Terminator == << Tok("//") >>
SlashSlashMore == << <<"//", "x">> >>
SeqLine(name, text) == << Tok(name), text >>
GRTags == {"SS", "SA", "PP"}
GCTags == {"SS_cons", "SA_cons", "PP_cons", "RF"}
AnnotationLine(tag) ==
  IF tag \in GRTags THEN << Tok("#=GR"), Tok("a"), Tok(tag), <<"x">> >>
  ELSE << Tok("#=GC"), Tok(tag), <<"x">> >>
WeightLine == << Tok("#=GS"), Tok("a"), Tok("WT"), Tok("2") >>
InvalidResidueLine == SeqLine("a", << InvalidResidue >>)

\* body lines every line parser accepts in text mode
WellFormedBodyLines(tag) ==
  { SeqLine("a", <<"A">>), SeqLine("a", <<"A", "C">>), SeqLine("b", <<"A">>),
    AnnotationLine(tag), WeightLine }
BodyLines(tag) == WellFormedBodyLines(tag) \cup { InvalidResidueLine, SlashSlashMore }

StockholmFiles ==
  { first \o body \o end :
      first \in { << StockholmHeader >>, << OtherHeader >>, << <<>>, StockholmHeader >>, <<>> },
      body \in UNION { SeqsUpTo(BodyLines(tag), 0, MaxBody) : tag \in GRTags \cup GCTags },
      end \in { <<>>, << Terminator >> } }

\* Stockholm records of sequence lines and #=GS WT lines only
MaxWeightBody == 4 \* most body lines of such a record
WeightLineOf(name, text) == << Tok("#=GS"), Tok(name), Tok("WT"), Tok(text) >>
WeightBodyLines ==
  { SeqLine("a", <<"A">>), SeqLine("b", <<"A">>), SeqLine("b", <<"A", "C">>),
    WeightLineOf("a", "2"), WeightLineOf("b", "2"), WeightLineOf("a", "-1") }
WeightFiles ==
  { << StockholmHeader >> \o body \o << Terminator >> :
      body \in SeqsUpTo(WeightBodyLines, 1, MaxWeightBody) }

\* Stockholm records of one sequence under one or two #=GF cutoff lines
CutoffLine(pair, values) == << Tok("#=GF"), Tok(pair) >> \o values
CutoffValues ==
  { <<>>, << TrailingBlanks >>, << Tok("1") >>, << Tok("1"), TrailingBlanks >>,
    << Tok("1"), Tok("2") >> }
CutoffLines == { CutoffLine(pair, values) : pair \in CutoffPairs, values \in CutoffValues }
CutoffFiles ==
  { << StockholmHeader >> \o gf \o << SeqLine("a", <<"A">>), Terminator >> :
      gf \in SeqsUpTo(CutoffLines, 1, 2) }

\* aligned FASTA lines
AfaLines ==
  { << <<">", "a">> >>, << <<">", "b">> >>, << Tok(">") >>,
    << <<"A">> >>, << <<"A", "C">> >>, << <<"A">>, <<"C">> >>, << << InvalidResidue >> >>,
    <<>> }
AfaFiles == SeqsUpTo(AfaLines, 0, MaxAfaLines)

\* SELEX lines << head, gap, data >>
SelexSeqLines ==
  { << Tok("a"), 1, <<"A">> >>, << Tok("a"), 1, <<"A", "C">> >>,
    << Tok("a"), 1, << InvalidResidue >> >>, << Tok("b"), 2, <<"A">> >>,
    << Tok("a"), 0, <<>> >> }
SelexLines ==
  SelexSeqLines \cup { << Tok(t), 1, <<"x">> >> : t \in {"#=RF", "#=CS", "#=SS", "#=SA"} }
SelexBlocks == SeqsUpTo(SelexLines, 1, MaxBlockLines)
\* the first block starts with a sequence line
SelexFirstBlocks == { b \in SelexBlocks : b[1] \in SelexSeqLines }
SelexFiles ==
  SelexFirstBlocks \cup
  { b1 \o << <<>> >> \o b2 : b1 \in SelexFirstBlocks, b2 \in SelexBlocks }

\* galosh profiles: a Match distribution puts all its mass on one residue,
\* or three quarters of it on residue 0
PointEmission(r) == [res_i \in Residues |-> IF res_i = r THEN One ELSE Zero]
ReaderProfilesOfLength(len) ==
  { [ZeroProfile(len) EXCEPT !.Match = match] :
      match \in [0 .. (len - 1) -> { PointEmission(r) : r \in Residues } \cup { Skewed }] }
ReaderProfiles == ReaderProfilesOfLength(1) \cup ReaderProfilesOfLength(2)

ReaderFiles(format) ==
  IF format = eslMSAFILE_STOCKHOLM THEN StockholmFiles \cup WeightFiles \cup CutoffFiles
  ELSE IF format = eslMSAFILE_AFA THEN AfaFiles
  ELSE IF format = eslMSAFILE_SELEX THEN SelexFiles
  ELSE ReaderProfiles

ReaderFormats ==
  {eslMSAFILE_STOCKHOLM, eslMSAFILE_SELEX, eslMSAFILE_AFA, eslMSAFILE_PROFILLIC}

\* the two file handles: ESL_MSAFILE is read by profillic_esl_msa_Read,
\* ESLX_MSAFILE by profillic_eslx_msafile_Read
ReaderHandles == {"ESL_MSAFILE", "ESLX_MSAFILE"}
HandleFormats(handle) ==
  IF handle = "ESL_MSAFILE" THEN ReaderFormats ELSE {eslMSAFILE_PROFILLIC}

(***************************************************************************)
(* The reader: an open alignment file and the calls of                     *)
(* profillic_esl_msa_Read on it                                            *)
(***************************************************************************)
InitRead ==
  /\ ConvertersIdle /\ BuilderIdle /\ cal = CalIdle
  /\ \E handle \in ReaderHandles, do_digital \in BOOLEAN :
       \E format \in HandleFormats(handle) : \E lines \in ReaderFiles(format) :
         rd = [pc |-> "open", handle |-> handle, format |-> format,
               do_digital |-> do_digital,
               f |-> OpenFile(lines), start |-> OpenFile(lines), calls |-> 0,
               status |-> "none", ret_msa |-> NULL, destroyed |-> NULL,
               errbuf |-> NoError]

\* status = profillic_esl_msa_Read(afp, &msa, &profile); a caller reads on
\* after a success
MsaRead ==
  /\ rd.pc = "open" /\ rd.handle = "ESL_MSAFILE" /\ rd.calls < MaxReads
  /\ rd.calls = 0 \/ rd.status = eslOK
  /\ \E r \in profillic_esl_msa_Read(rd.format, rd.f, rd.do_digital) :
       rd' = [rd EXCEPT !.start = rd.f, !.f = r.f, !.calls = @ + 1,
                        !.status = r.status, !.ret_msa = r.ret_msa,
                        !.destroyed = r.destroyed, !.errbuf = r.errbuf]
  /\ UNCHANGED <<convVars, bldVars, copyVars, cal>>

\* status = profillic_eslx_msafile_Read(afp, &msa, &profile);
MsafileRead ==
  /\ rd.pc = "open" /\ rd.handle = "ESLX_MSAFILE" /\ rd.calls < MaxReads
  /\ rd.calls = 0 \/ rd.status = eslOK
  /\ LET r == profillic_eslx_msafile_Read(rd.format, rd.f, rd.do_digital)
     IN rd' = [rd EXCEPT !.start = rd.f, !.f = r.f, !.calls = @ + 1,
                         !.status = r.status, !.ret_msa = r.ret_msa,
                         !.destroyed = r.destroyed, !.errbuf = r.errbuf]
  /\ UNCHANGED <<convVars, bldVars, copyVars, cal>>

NextRead == MsaRead \/ MsafileRead

SpecRead == InitRead /\ [][NextRead]_vars


(***************************************************************************)
(* Opening an alignment file (profillic_eslx_msafile_Open).  The library   *)
(* calls it makes are inputs: lib holds what each of them returns.         *)
(***************************************************************************)
eslENOTFOUND == "eslENOTFOUND"
eslENODATA == "eslENODATA"
eslENOFORMAT == "eslENOFORMAT"
eslENOALPHABET == "eslENOALPHABET"
eslESYS == "eslESYS"
eslMSAFILE_UNKNOWN == "eslMSAFILE_UNKNOWN"

\* a status code used as a C condition: every code but eslOK is nonzero
IsTrue(code) == code # eslOK

\* ESL_ALLOC_CPP( ESLX_MSAFILE, afp, ... ) and the initial fields
profillic_msafile_Create(alloc_ok) ==
  IF alloc_ok
  THEN [status |-> eslOK,
        afp |-> [bf |-> NULL, format |-> eslMSAFILE_UNKNOWN, abc |-> NULL, errmsg |-> ""]]
  ELSE [status |-> eslEMEM, afp |-> NULL]

\* byp_abc is NULL (text mode), or points to the caller's alphabet pointer
esl_byp_IsReturned(byp) == byp # NULL /\ byp.abc = NULL
esl_byp_IsProvided(byp) == byp # NULL /\ byp.abc # NULL

\* ERROR: of profillic_msafile_OpenBuffer
OpenBuffer_ERROR(st, byp_abc, afp, errmsg) ==
  [status |-> st,
   byp_abc |-> IF esl_byp_IsReturned(byp_abc) THEN [abc |-> NULL] ELSE byp_abc,
   afp |-> [afp EXCEPT !.abc = NULL, !.errmsg = errmsg]]

profillic_msafile_OpenBuffer(byp_abc, format, afp, lib) ==
  IF format = eslMSAFILE_UNKNOWN /\ lib.GuessFileFormat # eslOK
  THEN OpenBuffer_ERROR(lib.GuessFileFormat, byp_abc, afp,
                        IF lib.GuessFileFormat = eslENOFORMAT
                        THEN "couldn't determine alignment input format" ELSE "")
  ELSE
    LET afp1 == [afp EXCEPT !.format = IF format = eslMSAFILE_UNKNOWN
                                       THEN lib.guessed_format ELSE format]
        alphabet == IF esl_byp_IsProvided(byp_abc) THEN byp_abc.abc
               ELSE IF byp_abc # NULL THEN [type |-> lib.guessed_alphabet]
               ELSE NULL
    IN IF esl_byp_IsReturned(byp_abc) /\ lib.GuessAlphabet # eslOK
       THEN OpenBuffer_ERROR(lib.GuessAlphabet, byp_abc, afp1,
                             IF lib.GuessAlphabet = eslENOALPHABET
                             THEN "couldn't guess alphabet" ELSE "")
       ELSE IF esl_byp_IsReturned(byp_abc) /\ ~lib.alphabet_created
       THEN OpenBuffer_ERROR(eslEMEM, byp_abc, afp1, "")
       ELSE IF afp1.format \notin ReaderFormats
       THEN OpenBuffer_ERROR(eslENOFORMAT, byp_abc, afp1, "")
       ELSE [status |-> eslOK,
             byp_abc |-> IF esl_byp_IsReturned(byp_abc) THEN [abc |-> alphabet] ELSE byp_abc,
             afp |-> [afp1 EXCEPT !.abc = alphabet]]

\* what the open call hands back: its status, *ret_afp, *byp_abc, and
\* whether eslx_msafile_Close was called on the handle it created
OpenResult(st, ret_afp, byp_abc, closed) ==
  [status |-> st, ret_afp |-> ret_afp, byp_abc |-> byp_abc, closed |-> closed]

\* if (status == eslENOTFOUND || status == eslFAIL || status == eslEFORMAT
\*     || status == eslENODATA || eslENOALPHABET)
open_error_is_normal(st) ==
  \/ st = eslENOTFOUND \/ st = eslFAIL \/ st = eslEFORMAT
  \/ st = eslENODATA \/ IsTrue(eslENOALPHABET)

\* ERROR: of profillic_eslx_msafile_Open; afp->abc = NULL with afp NULL ends
\* the process
Open_ERROR(st, afp, byp_abc) ==
  IF open_error_is_normal(st)
  THEN IF afp = NULL THEN OpenResult(SIGSEGV, NULL, byp_abc, FALSE)
       ELSE OpenResult(st, [afp EXCEPT !.abc = NULL], byp_abc, FALSE)
  ELSE OpenResult(st, NULL, byp_abc, afp # NULL)

\* esl_buffer_Open leaves a buffer in an error state on ENOTFOUND and FAIL,
\* and no buffer when it throws; the message is copied from afp->bf->errmsg
profillic_eslx_msafile_Open(byp_abc, format, lib) ==
  With(profillic_msafile_Create(lib.afp_allocated), LAMBDA c :
    IF c.status # eslOK THEN Open_ERROR(c.status, c.afp, byp_abc)
    ELSE IF lib.esl_buffer_Open \in {eslENOTFOUND, eslFAIL}
    THEN Open_ERROR(lib.esl_buffer_Open,
                    [c.afp EXCEPT !.bf = "error state", !.errmsg = "couldn't open"],
                    byp_abc)
    ELSE IF lib.esl_buffer_Open # eslOK
    THEN OpenResult(SIGSEGV, NULL, byp_abc, FALSE)
    ELSE With(profillic_msafile_OpenBuffer(byp_abc, format,
                                           [c.afp EXCEPT !.bf = "open"], lib), LAMBDA o :
           IF o.status # eslOK THEN Open_ERROR(o.status, o.afp, o.byp_abc)
           ELSE OpenResult(eslOK, o.afp, o.byp_abc, FALSE)))

\* what the library calls return
BufferOpenStatuses == {eslOK, eslENOTFOUND, eslFAIL, eslEMEM, eslESYS, eslEINVAL}
GuessFileFormatStatuses == {eslOK, eslENOFORMAT, eslEMEM}
GuessAlphabetStatuses == {eslOK, eslENOALPHABET, eslENODATA, eslEFORMAT, eslEMEM, eslESYS}
LibraryOutcomes ==
  [afp_allocated : BOOLEAN, esl_buffer_Open : BufferOpenStatuses,
   GuessFileFormat : GuessFileFormatStatuses, guessed_format : {eslMSAFILE_STOCKHOLM},
   GuessAlphabet : GuessAlphabetStatuses, guessed_alphabet : {"eslDNA"},
   alphabet_created : BOOLEAN]
OpenFormats == {eslMSAFILE_UNKNOWN, eslMSAFILE_PROFILLIC, eslMSAFILE_AFA, "no such format"}
OpenAlphabets == {NULL, [abc |-> NULL], [abc |-> [type |-> "eslAMINO"]]}

InitOpen ==
  /\ ConvertersIdle /\ BuilderIdle /\ cal = CalIdle
  /\ \E byp_abc \in OpenAlphabets, format \in OpenFormats, lib \in LibraryOutcomes :
       rd = [pc |-> "closed", byp_abc |-> byp_abc, format |-> format, lib |-> lib,
             status |-> "none", ret_afp |-> NULL, closed |-> FALSE]

\* status = profillic_eslx_msafile_Open(&abc, msafile, env, format, NULL, &afp);
MsafileOpen ==
  /\ rd.pc = "closed"
  /\ LET r == profillic_eslx_msafile_Open(rd.byp_abc, rd.format, rd.lib)
     IN rd' = [rd EXCEPT !.pc = "returned", !.status = r.status, !.ret_afp = r.ret_afp,
                         !.byp_abc = r.byp_abc, !.closed = r.closed]
  /\ UNCHANGED <<convVars, bldVars, copyVars, cal>>

NextOpen == MsafileOpen

SpecOpen == InitOpen /\ [][NextOpen]_vars


(***************************************************************************)
(* Properties of Unify and Hybridize                                       *)
(***************************************************************************)
\* C11: Unify changes only the interior transition rows: the rows at
\* position 0 and at position M, every match and insert emission and M are
\* the same after Unify as in the model that was read; when M = 1 the whole
\* model is unchanged.
C11_UnifyFrame ==
  pc = "unified" =>
     /\ hmm.M = hmmfile.M
     /\ hmm.t[0] = hmmfile.t[0]
     /\ hmm.t[hmm.M] = hmmfile.t[hmmfile.M]
     /\ hmm.mat = hmmfile.mat
     /\ hmm.ins = hmmfile.ins
     /\ DOMAIN hmm.t = DOMAIN hmmfile.t
     /\ hmmfile.M <= 1 => hmm = hmmfile

C11_Witness ==
  /\ pc = "unified" /\ hmmfile.M = 1
  /\ hmm = hmmfile /\ outhmm = hmmfile
  /\ hmm.t[1] # average_internal_transitions(hmmfile)

\* C12: Unify is idempotent: the tool run on its own output writes the
\* model it read.
C12_UnifyIdempotent ==
  pc = "reunified" => /\ hmm = hmmfile
                      /\ outhmm = hmmfile
                      /\ status = eslOK

C12_Witness ==
  /\ pc = "reunified" /\ hmm.M >= 3
  /\ hmm = hmmfile
  /\ hmm.t[1][p7H_MM] = Rat(5, 8)
  /\ hmm.t[0] # hmm.t[1]

\* C13: Hybridize of a first model A and a second model B of equal M gives
\* a model with A's match and insert emissions, B's rows at positions 0
\* and M (not averaged), and at every interior position the sum of B's
\* interior rows with the match triplet, the insert pair and the delete
\* pair each normalised on its own.
C13_HybridizeEqualLength ==
  (pc = "hybridized" /\ hmmfile.M = transhmm.M) =>
     /\ hmm.M = hmmfile.M
     /\ hmm.mat = hmmfile.mat
     /\ hmm.ins = hmmfile.ins
     /\ hmm.t[0] = transhmm.t[0]
     /\ hmm.t[hmm.M] = transhmm.t[transhmm.M]
     /\ \A k \in Interior(hmm.M) : \A x \in Slots :
           hmm.t[k][x] =
             RDiv(InteriorSlotSum(transhmm, x),
                  SetSum([y \in GroupOf(x) |-> InteriorSlotSum(transhmm, y)], GroupOf(x)))

C13_Witness ==
  /\ pc = "hybridized" /\ hmmfile.M = 3 /\ transhmm.M = 3
  /\ hmmfile.mat # transhmm.mat
  /\ hmmfile.t[0] # transhmm.t[0]
  /\ hmmfile.t[3] # transhmm.t[3]
  /\ transhmm.t[1] # transhmm.t[2]
  /\ hmmfile.t[1] = hmmfile.t[2]
  /\ hmm.t[1][p7H_MM] = Rat(5, 8)
  /\ hmm.mat = hmmfile.mat

OutOfBounds(a) == a.k \notin 0 .. a.M

\* C14 as stated: Hybridize on two models of different M reads or writes a
\* transition row at an index outside 0..M of the model it belongs to.
C14_MismatchOutOfBounds ==
  (pc = "hybridized" /\ hmmfile.M # transhmm.M) => \E a \in accessed : OutOfBounds(a)

\* C14 amended: Hybridize on two models of different M stays in bounds:
\* every row it reads or writes is indexed within 0..M of its own model.
\* The result keeps A's length and emissions, takes B's row 0 at position
\* 0 and B's row M_B at position M_A, and B's averaged row at 1..M_A-1.
C14_MismatchStaysInBounds ==
  (pc = "hybridized" /\ hmmfile.M # transhmm.M) =>
     /\ \A a \in accessed : ~OutOfBounds(a)
     /\ hmm.M = hmmfile.M
     /\ hmm.mat = hmmfile.mat /\ hmm.ins = hmmfile.ins
     /\ hmm.t[0] = transhmm.t[0]
     /\ hmm.t[hmm.M] = transhmm.t[transhmm.M]
     /\ \A k \in Interior(hmm.M) : hmm.t[k] = copy_average_internal_transitions(transhmm)

C14_Witness ==
  /\ pc = "hybridized"
  /\ hmmfile.M = 3 /\ transhmm.M = 1
  /\ [model |-> "hmm", k |-> 3, M |-> 3] \in accessed
  /\ [model |-> "transhmm", k |-> 1, M |-> 1] \in accessed
  /\ hmm.t[3] = transhmm.t[1]
  /\ status = eslOK

(***************************************************************************)
(* Properties of the calibration tool                                      *)
(***************************************************************************)
\* C15: with a nonzero seed the generator is in the freshly seeded state
\* whenever the calibration of a model of the input file begins, so a
\* model's fitted parameters depend on the model and the seed only, not on
\* the models before it; with seed 0 the generator is never initialised
\* again: each calibration continues where the previous one stopped.
C15_SeedReappliedPerModel ==
  cal.pc # "idle" =>
     /\ Len(cal.started) = cal.nhmm
     /\ cal.seed # 0 =>
           /\ \A i \in 1 .. Len(cal.started) :
                 cal.started[i] = [seed |-> cal.seed, used |-> 0]
           /\ \A i \in 1 .. Len(cal.evparams) :
                 cal.evparams[i] = <<cal.stream[i].M, cal.seed, 0>>
     /\ cal.seed = 0 =>
           /\ \A i \in 1 .. Len(cal.started) :
                 /\ cal.started[i].seed = cal.r.seed
                 /\ i = 1 => cal.started[i].used = 0
                 /\ i > 1 => cal.started[i] = cal.finished[i - 1]
           /\ cal.r.seed \in ArbitrarySeeds

C15_Witness ==
  /\ cal.pc = "exit" /\ cal.seed = 2 /\ cal.nhmm = 3
  /\ cal.stream[1].M # cal.stream[3].M
  /\ Len(cal.written) = 3
  /\ cal.started[3] = [seed |-> 2, used |-> 0]
  /\ cal.finished[2].used > 0

(***************************************************************************)
(* Properties of the alignment readers                                     *)
(***************************************************************************)
\* the lines the last call found unread, and what it was called on
Remaining(f) == SubSeq(f.lines, f.linenumber + 1, Len(f.lines))
CalledOn(format) == rd.calls > 0 /\ rd.format = format /\ ~rd.start.feof

\* the position of the first non-blank line, 0 if there is none
FirstNonBlank(lines) ==
  LET nb == { i \in 1 .. Len(lines) : lines[i] # <<>> }
  IN IF nb = {} THEN 0 ELSE SetMin(nb)

BeginsWith(line, atom) == line # <<>> /\ Head(Head(line)) = atom

\* the record the call was made on does not start with the Stockholm header
RecordLacksHeader ==
  LET rem == Remaining(rd.start)
  IN FirstNonBlank(rem) # 0 /\ ~BeginsWith(rem[FirstNonBlank(rem)], "# STOCKHOLM 1.")

\* the record has its header, and no later line starts with "//"
RecordLacksTerminator ==
  LET rem == Remaining(rd.start)
      h == FirstNonBlank(rem)
  IN /\ h # 0 /\ BeginsWith(rem[h], "# STOCKHOLM 1.")
     /\ \A i \in (h + 1) .. Len(rem) : ~BeginsWith(rem[i], "//")

\* every line after the header is one the line parsers accept
BodyLinesParse ==
  LET rem == Remaining(rd.start)
      h == FirstNonBlank(rem)
      accepted == UNION { WellFormedBodyLines(tag) : tag \in GRTags \cup GCTags }
                    \cup (IF rd.do_digital THEN {} ELSE { InvalidResidueLine })
  IN \A i \in (h + 1) .. Len(rem) : rem[i] \in accepted

\* C16: read_stockholm never succeeds on a record without the
\* "# STOCKHOLM 1." header or without a terminator before the end of input:
\* the MSA built so far is destroyed and *ret_msa is NULL; the status is
\* eslEFORMAT when the header is missing, and when the reader gets to the end
\* of input without a terminator
C16_HeaderAndTerminatorRequired ==
  CalledOn(eslMSAFILE_STOCKHOLM) =>
    /\ (RecordLacksHeader \/ RecordLacksTerminator) =>
         /\ rd.status # eslOK
         /\ rd.ret_msa = NULL
         /\ rd.destroyed # NULL
    /\ RecordLacksHeader =>
         /\ rd.status = eslEFORMAT
         /\ rd.errbuf.text = "missing # STOCKHOLM header"
    /\ (RecordLacksTerminator /\ BodyLinesParse) =>
         /\ rd.status = eslEFORMAT
         /\ rd.errbuf.text = "didn't find // at end of alignment"

\* a record with its header and two sequences was read to the end of input
\* without a terminator, and the MSA holding the sequences was destroyed
C16_Witness ==
  /\ CalledOn(eslMSAFILE_STOCKHOLM)
  /\ RecordLacksTerminator /\ BodyLinesParse
  /\ rd.status = eslEFORMAT /\ rd.ret_msa = NULL
  /\ rd.destroyed # NULL /\ rd.destroyed.nseq = 2

\* C17: a successful read_stockholm ended its record at a line that is
\* exactly "//"
C17_TerminatorIsExact ==
  (CalledOn(eslMSAFILE_STOCKHOLM) /\ rd.status = eslOK) =>
    rd.f.lines[rd.f.linenumber] = Terminator

LengthMessages ==
  { "sequence length is not equal to the expected length", "sequence length",
    "GR SS length", "GR SA length", "GR PP length",
    "GC SS_cons length", "GC SA_cons length", "GC PP_cons length", "GC RF length" }

\* the text of sequence idx of an MSA, digital or not
SeqText(m, idx) == IF "eslMSA_DIGITAL" \in m.flags THEN m.ax[idx].s ELSE m.aseq[idx].s

\* every sequence and every annotation track that is present has alen columns
TracksHaveAlignedLength(m) ==
  /\ \A idx \in 0 .. (m.nseq - 1) :
       /\ Len(SeqText(m, idx)) = m.alen
       /\ Present(m.ss, idx) => Len(m.ss.a[idx].s) = m.alen
       /\ Present(m.sa, idx) => Len(m.sa.a[idx].s) = m.alen
       /\ Present(m.pp, idx) => Len(m.pp.a[idx].s) = m.alen
  /\ m.ss_cons.alloc => Len(m.ss_cons.s) = m.alen
  /\ m.sa_cons.alloc => Len(m.sa_cons.s) = m.alen
  /\ m.pp_cons.alloc => Len(m.pp_cons.s) = m.alen
  /\ m.rf.alloc => Len(m.rf.s) = m.alen

\* C18: an MSA returned by a successful Stockholm or AFA read has alen equal
\* to the length of every sequence and of every present annotation track, and
\* a read that finds a length differing from the first sequence's fails with
\* eslEFORMAT and returns no MSA
C18_AlignedLengths ==
  (CalledOn(eslMSAFILE_STOCKHOLM) \/ CalledOn(eslMSAFILE_AFA)) =>
    /\ rd.status = eslOK => TracksHaveAlignedLength(rd.ret_msa)
    /\ rd.errbuf.text \in LengthMessages => (rd.status = eslEFORMAT /\ rd.ret_msa = NULL)

\* C19: for every format, an MSA returned by a successful read whose input
\* set no weights has every weight equal to 1.0
C19_DefaultWeights ==
  (rd.calls > 0 /\ ~rd.start.feof /\ rd.status = eslOK
     /\ "eslMSA_HASWGTS" \notin rd.ret_msa.flags) =>
    \A idx \in 0 .. (rd.ret_msa.nseq - 1) : rd.ret_msa.wgt[idx] = One

\* the blocks of a SELEX file of two blocks
SelexBlock1(lines) ==
  SubSeq(lines, 1, SetMin({ i \in 1 .. Len(lines) : lines[i] = <<>> }) - 1)
SelexBlock2(lines) ==
  SubSeq(lines, SetMin({ i \in 1 .. Len(lines) : lines[i] = <<>> }) + 1, Len(lines))

\* the second block does not repeat the first block's line count, line types
\* and sequence names
SecondBlockDeviates ==
  LET lines == rd.start.lines
      b1 == SelexBlock1(lines)
      b2 == SelexBlock2(lines)
  IN /\ rd.start.linenumber = 0
     /\ \E i \in 1 .. Len(lines) : lines[i] = <<>>
     /\ \/ Len(b1) # Len(b2)
        \/ \E li \in 1 .. Len(b1) :
             \/ selex_line_type(b1[li]) # selex_line_type(b2[li])
             \/ selex_line_type(b1[li]) = eslMSA_LINE_SQ /\ b1[li][1] # b2[li][1]

\* C20: a SELEX read whose second block deviates from the first fails with
\* eslEFORMAT, its message names a line number, and no MSA is returned
C20_LaterBlocksMatchFirst ==
  (CalledOn(eslMSAFILE_SELEX) /\ SecondBlockDeviates) =>
    /\ rd.status = eslEFORMAT
    /\ rd.errbuf.line > 0
    /\ rd.ret_msa = NULL

\* the header lines of an aligned FASTA file, and its k-th sequence: the
\* lines from the k-th header up to the next one
AfaHeaders(lines) == { i \in 1 .. Len(lines) : BeginsWith(lines[i], ">") }
AfaHeader(lines, k) ==
  CHOOSE p \in AfaHeaders(lines) : Cardinality({ q \in AfaHeaders(lines) : q < p }) = k - 1
AfaSeqEnd(lines, k) ==
  IF k = Cardinality(AfaHeaders(lines)) THEN Len(lines) ELSE AfaHeader(lines, k + 1) - 1

\* the residues on the lines of the k-th sequence
AfaSeqLen(lines, k) ==
  Cardinality({ c \in (1 .. Len(lines)) \X (1 .. 2) \X (1 .. 2) :
                  /\ c[1] > AfaHeader(lines, k) /\ c[1] <= AfaSeqEnd(lines, k)
                  /\ c[2] <= Len(lines[c[1]])
                  /\ c[3] <= Len(lines[c[1]][c[2]]) })

\* the sequences whose length differs from the first sequence's
AfaUnequal(lines) ==
  { k \in 2 .. Cardinality(AfaHeaders(lines)) : AfaSeqLen(lines, k) # AfaSeqLen(lines, 1) }

\* the first read of an aligned FASTA file with two or more sequences, one of
\* them of another length than the first
AfaUnequalRead ==
  /\ CalledOn(eslMSAFILE_AFA) /\ rd.start.linenumber = 0
  /\ AfaUnequal(rd.start.lines) # {}

\* the read failed, returned no MSA, and its message names the earliest
\* sequence of another length, that length and the first sequence's
AfaUnequalReported ==
  LET lines == rd.start.lines
      k == SetMin(AfaUnequal(lines))
  IN /\ rd.status \notin {eslOK, SIGSEGV}
     /\ rd.ret_msa = NULL
     /\ rd.errbuf = [text |-> "sequence length is not equal to the expected length",
                     line |-> 0, seq |-> k, len |-> AfaSeqLen(lines, k),
                     expected |-> AfaSeqLen(lines, 1)]

\* nothing else is wrong with the file: its first non-blank line is a header,
\* every header has a name, and a digital read finds no invalid residue
AfaOtherwiseWellFormed ==
  LET lines == rd.start.lines
  IN /\ FirstNonBlank(lines) \in AfaHeaders(lines)
     /\ \A p \in AfaHeaders(lines) : lines[p] # << Tok(">") >>
     /\ rd.do_digital => \A i \in 1 .. Len(lines) : ~afa_dsqcat_fails([flags |-> {"eslMSA_DIGITAL"}], lines[i])

\* C21 as stated: every aligned FASTA input with two or more sequences, one
\* of them of another length than the first, fails without an MSA and with
\* the message naming the earliest such sequence and both lengths
C21_UnequalLengthAlwaysReported == AfaUnequalRead => AfaUnequalReported

\* C21: an aligned FASTA input with two or more sequences, one of them of
\* another length than the first, and with nothing else wrong (data only
\* after a header, every header named, no invalid residue in a digital read),
\* fails without an MSA; the message names the earliest such sequence, its
\* length and the first sequence's length, the last sequence being checked
\* at the end of input
C21_UnequalLengthReported ==
  (AfaUnequalRead /\ AfaOtherwiseWellFormed) => AfaUnequalReported

\* the second of three sequences is empty while the first has one residue:
\* the third header reports sequence 2 with lengths 0 and 1
C21_Witness ==
  /\ AfaUnequalRead /\ AfaOtherwiseWellFormed
  /\ Cardinality(AfaHeaders(rd.start.lines)) = 3
  /\ rd.status = eslEFORMAT /\ rd.ret_msa = NULL
  /\ rd.errbuf.text = "sequence length is not equal to the expected length"
  /\ rd.errbuf.seq = 2 /\ rd.errbuf.len = 0 /\ rd.errbuf.expected = 1

\* C22: read_afa on an input without any sequence (no line at all, or only
\* blank lines) returns eslEOF with *ret_msa NULL, and no format error
C22_EmptyAfaIsEndOfInput ==
  (CalledOn(eslMSAFILE_AFA) /\ FirstNonBlank(Remaining(rd.start)) = 0) =>
    (rd.status = eslEOF /\ rd.ret_msa = NULL)

\* a read of a galosh profile succeeded, on either file handle
ProfileRead == rd.calls > 0 /\ rd.format = eslMSAFILE_PROFILLIC /\ rd.status = eslOK

\* C23: a successful galosh-profile read returns an MSA with exactly one
\* sequence; the sequence's length and the MSA's alen are the profile's
\* length, and the residue at each position has the largest probability of
\* the profile's Match emission distribution at that position
C23_ConsensusOfProfile ==
  ProfileRead =>
    LET prof == rd.start.lines
        m == rd.ret_msa
    IN /\ m # NULL /\ m.nseq = 1
       /\ Len(SeqText(m, 0)) = prof.length
       /\ m.alen = prof.length
       /\ \A pos_i \in 0 .. (prof.length - 1) :
            \E r \in Residues :
              /\ SeqText(m, 0)[pos_i + 1] = ResidueLetters[r + 1]
              /\ \A q \in Residues : RLe(prof.Match[pos_i][q], prof.Match[pos_i][r])

\* a profile of two positions whose largest Match probabilities are 3/4 for
\* residue 0 and 1 for residue 1 was read as the one sequence "AC"
C23_Witness ==
  /\ ProfileRead /\ rd.handle = "ESL_MSAFILE"
  /\ rd.start.lines.length = 2
  /\ rd.start.lines.Match[0] = Skewed
  /\ rd.start.lines.Match[1] = PointEmission(1)
  /\ rd.ret_msa.nseq = 1 /\ rd.ret_msa.alen = 2
  /\ SeqText(rd.ret_msa, 0) = <<"A", "C">>

\* C24: after one successful galosh-profile read on a stream, a later read
\* on the same stream returns eslEOF and no MSA
C24_OneProfilePerStream ==
  (rd.format = eslMSAFILE_PROFILLIC /\ rd.calls >= 2) =>
    (rd.status = eslEOF /\ rd.ret_msa = NULL)

\* C25: on every failing SELEX read the pointer profillic_esl_msa_Read hands
\* back in *ret_msa is NULL
C25_FailedSelexReturnsNull ==
  (rd.calls > 0 /\ rd.format = eslMSAFILE_SELEX /\ rd.status # eslOK) =>
    rd.ret_msa = NULL

\* C26: read_selex asked for a digital alignment never returns eslOK with an
\* MSA that esl_msa_Digitize refused: a read that succeeds hands back a
\* digital MSA, a failing digitisation ends the read with eslEINVAL
C26_DigitizeFailureReported ==
  (CalledOn(eslMSAFILE_SELEX) /\ rd.do_digital /\ rd.status = eslOK) =>
    "eslMSA_DIGITAL" \in rd.ret_msa.flags

(***************************************************************************)
(* Properties of profillic_eslx_msafile_Open                               *)
(***************************************************************************)
NormalOpenErrors == {eslENOTFOUND, eslFAIL, eslEFORMAT, eslENODATA, eslENOALPHABET}
ThrownOpenErrors == {eslEMEM, eslESYS, eslEINVAL}

\* C27: profillic_eslx_msafile_Open returns a handle in an error state for
\* the normal errors; for every thrown exception it closes the handle it
\* created, if any, and sets *ret_afp to NULL
C27_ThrownErrorsCloseHandle ==
  rd.pc = "returned" =>
    /\ rd.status \in NormalOpenErrors => rd.ret_afp # NULL
    /\ (~rd.lib.afp_allocated
          \/ rd.lib.esl_buffer_Open \in ThrownOpenErrors
          \/ rd.status \in ThrownOpenErrors) =>
         /\ rd.status \in ThrownOpenErrors
         /\ rd.ret_afp = NULL
         /\ rd.lib.afp_allocated => rd.closed

(***************************************************************************)
(* Properties of the builder's steps                                       *)
(***************************************************************************)
\* the missing-data symbols of a sequence are a run at its start and a run
\* at its end: columns 1..i and j+1..alen for some i <= j
MissingOnlyAtEdges(seq, alen) ==
  \E i \in 0 .. alen, j \in 0 .. alen :
    /\ i <= j
    /\ \A apos \in 1 .. alen : IsMissing(seq[apos]) <=> (apos <= i \/ apos > j)

\* validate_msa has returned and no later step has touched the MSA
Validated == Len(ran) = 1 /\ ran[1].step = "validate_msa"

\* C28: validate_msa returns eslOK if and only if in every sequence the
\* missing-data symbols of columns 1..alen form a run at the start and a run
\* at the end (either may be empty); otherwise it returns eslEINVAL and its
\* message names the first sequence that is not of this form
C28_MissingDataOnlyAtEdges ==
  Validated =>
    LET bad == { idx \in 1 .. msa.nseq : ~MissingOnlyAtEdges(msa.ax[idx], msa.alen) }
    IN /\ bad = {} <=> ran[1].status = eslOK
       /\ bad # {} => /\ ran[1].status = eslEINVAL
                      /\ validate_msa(msa, 1).idx = SetMin(bad)

\* the first sequence, with missing data at its end only, was accepted and
\* the second, with missing data between residues, was named
C28_Witness ==
  /\ Validated /\ msa.nseq = 2 /\ msa.alen = 3
  /\ msa.ax[1] = <<"A", "A", "~">>
  /\ msa.ax[2] = <<"A", "~", "A">>
  /\ ran[1].status = eslEINVAL
  /\ validate_msa(msa, 1).idx = 2

\* profillic_parameterize has just returned eslOK
Parameterized ==
  /\ bpc = "annotate" /\ bhmm # NULL
  /\ ran[Len(ran)] = [step |-> "profillic_parameterize", status |-> eslOK, hmm_null |-> FALSE]

\* C29: after profillic_parameterize on a model with M >= 1, the match
\* triplet at every k in 0..M sums to 1 and t[M][MD] = 0; the insert pair at
\* every k in 0..M sums to 1; the delete pair at every k in 1..M-1 sums to 1;
\* t[0][DM] = t[M][DM] = 1 and t[0][DD] = t[M][DD] = 0; mat[0] is (1,0,..,0);
\* mat[k] for k in 1..M and ins[k] for k in 0..M sum to 1
C29_ParameterizedConventions ==
  (Parameterized /\ bhmm.M >= 1) =>
    LET M == bhmm.M
    IN /\ \A k \in 0 .. M :
            /\ VSum(bhmm.t[k], p7H_MM, p7H_MD) = One
            /\ VSum(bhmm.t[k], p7H_IM, p7H_II) = One
            /\ VSum(bhmm.ins[k], 0, K - 1) = One
       /\ bhmm.t[M][p7H_MD] = Zero
       /\ \A k \in 1 .. (M - 1) : VSum(bhmm.t[k], p7H_DM, p7H_DD) = One
       /\ bhmm.t[0][p7H_DM] = One /\ bhmm.t[M][p7H_DM] = One
       /\ bhmm.t[0][p7H_DD] = Zero /\ bhmm.t[M][p7H_DD] = Zero
       /\ bhmm.mat[0] = [r \in Residues |-> IF r = 0 THEN One ELSE Zero]
       /\ \A k \in 1 .. M : VSum(bhmm.mat[k], 0, K - 1) = One

\* the count model of two sequences and three columns was normalised: the
\* counts of 2 became probabilities of 1
C29_Witness ==
  /\ Parameterized /\ profile = NULL /\ msa.nseq = 2 /\ bhmm.M = 3
  /\ bhmm.t[1][p7H_MM] = One /\ bhmm.mat[1][0] = One
  /\ bhmm.t[0][p7H_DM] = One /\ bhmm.t[1][p7H_DM] = Rat(1, 2)

\* annotate has returned eslOK
Annotated ==
  /\ bpc = "calibrate" /\ bhmm # NULL
  /\ ran[Len(ran)] = [step |-> "annotate", status |-> eslOK, hmm_null |-> FALSE]

\* both values of a cutoff pair are marked set in the alignment
BothSet(pair) == msa.cutset[pair][1] /\ msa.cutset[pair][2]

\* C30: after annotate, a cutoff pair's flag is set on the model if and only
\* if both values of the pair are marked set in the alignment; such a pair
\* is copied, any other pair is left unset on the model
C30_CutoffPairsTransferred ==
  Annotated =>
    \A pair \in CutoffPairs :
      /\ (p7H_CutoffFlag(pair) \in bhmm.flags) <=> BothSet(pair)
      /\ BothSet(pair) => bhmm.cutoff[pair] = msa.cutoff[pair]
      /\ ~BothSet(pair) => bhmm.cutoff[pair] = << p7_CUTOFF_UNSET, p7_CUTOFF_UNSET >>

\* the alignment had GA with its first value only and TC with two values:
\* the model got TC and not GA
C30_Witness ==
  /\ Annotated
  /\ msa.cutset["GA"] = << TRUE, FALSE >> /\ msa.cutoff["GA"][1] = One
  /\ BothSet("TC") /\ bhmm.cutoff["TC"] = << One, Zero >>
  /\ bhmm.flags \cap {"p7H_GA", "p7H_TC", "p7H_NC"} = {"p7H_TC"}
  /\ bhmm.cutoff["GA"] = << p7_CUTOFF_UNSET, p7_CUTOFF_UNSET >>

(***************************************************************************)
(* Properties of the model maker's annotation                              *)
(***************************************************************************)
\* profillic_p7_Profillicmodelmaker has just returned eslOK inside the builder
ModelMade ==
  /\ src = "builder" /\ profile # NULL /\ bhmm # NULL /\ ran # <<>>
  /\ ran[Len(ran)].step = "profillic_build_model" /\ status = eslOK

\* C31: after a successful model maker the alignment's reference line is
\* allocated, has alen columns, all 'x', and the model's map has
\* map[0] = 0 and map[k] = k for every k in 1..alen
C31_RfAllMatchAndMapIdentity ==
  ModelMade =>
    /\ msa.rf = [alloc |-> TRUE, s |-> [apos \in 1 .. msa.alen |-> "x"]]
    /\ (0 .. msa.alen) \subseteq DOMAIN bhmm.map
    /\ \A k \in (0 .. msa.alen) \cap DOMAIN bhmm.map : bhmm.map[k] = k

\* C39: every entry profillic_annotate_model writes lies inside the array
\* it allocated for it
C39_AnnotateModelStaysInBounds ==
  src = "builder" => \A w \in accessed : ~WriteOutOfBounds(w)

(***************************************************************************)
(* Properties of the builder's teardown and checksum                       *)
(***************************************************************************)
BuilderFailed == src = "builder" /\ bpc = "returned" /\ bstatus # eslOK
Destroyed == { destroyed[i] : i \in 1 .. Len(destroyed) }

\* C32: when the builder has failed, the model and the tracebacks it built
\* are destroyed once and nothing else is, save the search profiles that
\* its own calibrate step created; *opt_hmm and *opt_trarr are not assigned
C32_FailureDestroysOnlyOwnObjects ==
  BuilderFailed =>
    /\ \A i, j \in 1 .. Len(destroyed) : i # j => destroyed[i] # destroyed[j]
    /\ Destroyed \subseteq {"hmm", "tr", "gm", "om"}
    /\ ("hmm" \in Destroyed) <=> (bhmm # NULL)
    /\ ("tr" \in Destroyed) <=> (btr # NULL)
    /\ out.opt_hmm \in {"absent", "entry"} /\ out.opt_trarr \in {"absent", "entry"}

HasChecksumFlag(h) == h # NULL /\ "p7H_CHKSUM" \in h.flags

\* the local checksum is assigned by the esl_msa_Checksum step alone, which
\* runs when validate_msa is the only step that has run
ChecksumTakenAfterValidation ==
  checksum' # checksum =>
    /\ bpc = "esl_msa_Checksum"
    /\ ran = << [step |-> "validate_msa", status |-> eslOK, hmm_null |-> TRUE] >>
    /\ checksum' = esl_msa_Checksum(msa)

\* a model carries the checksum flag only when the build has returned eslOK,
\* every step from validate_msa to make_post_msa has returned eslOK, and
\* then its checksum is the local one
ChecksumFlagOnlyOnSuccess ==
  HasChecksumFlag(bhmm) =>
    /\ bpc = "returned" /\ bstatus = eslOK
    /\ bhmm.checksum = checksum
    /\ \A i \in 1 .. Len(ran) : ran[i].status = eslOK
    /\ ran[Len(ran)].step = "make_post_msa"

\* C33: the checksum stamped on the model is the one computed from the MSA
\* right after validation, before any step has modified the MSA, and the
\* checksum flag is only set once every step has succeeded
C33_ChecksumOfValidatedMsa ==
  [](src = "builder" => ChecksumFlagOnlyOnSuccess)
    /\ [][src = "builder" => ChecksumTakenAfterValidation]_vars

\* a build has succeeded on an alignment whose only sequence was marked a
\* fragment after the checksum was taken: the stamped checksum is that of
\* the alignment as it came in
C33_Witness ==
  /\ src = "builder" /\ HasChecksumFlag(bhmm) /\ bpc = "returned"
  /\ bhmm.checksum = << [apos \in 1 .. 1 |-> "-"] >>
  /\ msa.ax = << [apos \in 1 .. 1 |-> "~"] >>

(***************************************************************************)
(* get_seqidx called again and again on one MSA                            *)
(***************************************************************************)
MaxCalls == 4  \* most calls of get_seqidx on the MSA
SeqNames == { Tok("a"), Tok("b"), Tok("c") }
Guesses == -1 .. MaxCalls

InitSeqidx ==
  /\ ConvertersIdle /\ BuilderIdle /\ cal = CalIdle
  /\ \E do_digital \in BOOLEAN :
       rd = [pc |-> "get_seqidx", msa |-> esl_msa_Create(do_digital), calls |-> 0,
             name |-> Tok(""), guess |-> -1, idx |-> -1]

\* status = get_seqidx(msa, seqname, guess, &seqidx);
GetSeqidx ==
  /\ rd.pc = "get_seqidx" /\ rd.calls < MaxCalls
  /\ \E name \in SeqNames, guess \in Guesses :
       LET r == get_seqidx(rd.msa, name, guess)
       IN rd' = [rd EXCEPT !.msa = r.msa, !.calls = @ + 1,
                           !.name = name, !.guess = guess, !.idx = r.idx]
  /\ UNCHANGED <<convVars, bldVars, copyVars, cal>>

NextSeqidx == GetSeqidx

SpecSeqidx == InitSeqidx /\ [][NextSeqidx]_vars

StoredNames(m) == { m.sqname[i] : i \in 0 .. (m.nseq - 1) }

\* the stored names are pairwise distinct
NamesDistinct ==
  \A i, j \in 0 .. (rd.msa.nseq - 1) : i # j => rd.msa.sqname[i] # rd.msa.sqname[j]

\* one call: a stored name comes back with its index and nothing changes; a
\* new name is stored at index nseq and nseq grows by one
SeqidxCall ==
  LET before == rd.msa
      after == rd'.msa
  IN IF rd'.name \in StoredNames(before)
     THEN /\ after = before
          /\ rd'.idx \in 0 .. (before.nseq - 1)
          /\ before.sqname[rd'.idx] = rd'.name
     ELSE /\ rd'.idx = before.nseq
          /\ after.nseq = before.nseq + 1
          /\ after.sqname[rd'.idx] = rd'.name
          /\ \A i \in 0 .. (before.nseq - 1) : after.sqname[i] = before.sqname[i]

\* C34: over any sequence of get_seqidx calls the stored names stay
\* pairwise distinct; a stored name returns its index and leaves nseq alone
\* whatever the guess; a new name is stored at index nseq and nseq grows by 1
C34_SeqidxKeepsNamesDistinct ==
  [](rd.pc = "get_seqidx" => NamesDistinct)
    /\ [][(rd.pc = "get_seqidx" /\ rd'.calls = rd.calls + 1) => SeqidxCall]_vars

\* "a" was found at index 0 although the guess pointed at "b"
C34_Witness ==
  /\ rd.pc = "get_seqidx" /\ rd.calls = 3 /\ rd.msa.nseq = 2
  /\ rd.msa.sqname[0] = Tok("a") /\ rd.msa.sqname[1] = Tok("b")
  /\ rd.name = Tok("a") /\ rd.guess = 1 /\ rd.idx = 0

(***************************************************************************)
(* Properties of the SELEX blocks                                          *)
(***************************************************************************)
\* the width of a block: from the leftmost to the rightmost data column of
\* its lines, 0 when no line has data
SelexBlockWidth(block) ==
  LET withdata == { li \in 1 .. Len(block) : block[li][3] # <<>> }
  IN IF withdata = {} THEN 0
     ELSE SetMax({ selex_rpos(block[li]) : li \in withdata })
            - SetMin({ selex_lpos(block[li]) : li \in withdata }) + 1

HasSecondBlock(lines) == \E i \in 1 .. Len(lines) : lines[i] = <<>>
SelexWidth(lines) ==
  IF HasSecondBlock(lines)
  THEN SelexBlockWidth(SelexBlock1(lines)) + SelexBlockWidth(SelexBlock2(lines))
  ELSE SelexBlockWidth(lines)

\* a whole SELEX file was read with success
SelexRead == CalledOn(eslMSAFILE_SELEX) /\ rd.calls = 1 /\ rd.status = eslOK

\* C35: after the blocks of a SELEX file are appended every sequence and
\* every annotation track has length alen, alen is the sum of the blocks'
\* widths (0 for a block without data), and a sequence line without data
\* has contributed as many blanks as its block is wide
C35_SelexTracksGrowByBlockWidth ==
  SelexRead =>
    LET lines == rd.start.lines
        m == rd.ret_msa
    IN /\ TracksHaveAlignedLength(m)
       /\ m.alen = SelexWidth(lines)
       /\ ~HasSecondBlock(lines) =>
            \A li \in 1 .. Len(lines) :
              (selex_line_type(lines[li]) = eslMSA_LINE_SQ /\ lines[li][3] = <<>>) =>
                LET idx == Cardinality({ lj \in 1 .. li :
                                           selex_line_type(lines[lj]) = eslMSA_LINE_SQ }) - 1
                IN SeqText(m, idx) = [apos \in 1 .. m.alen |-> "."]

\* two blocks of widths 1 and 2; sequence a has no data in the first block
C35_Witness ==
  /\ SelexRead /\ HasSecondBlock(rd.start.lines) /\ ~rd.do_digital
  /\ rd.ret_msa.nseq = 2 /\ rd.ret_msa.alen = 3
  /\ rd.ret_msa.aseq[0].s = <<".", "A", "C">>
  /\ rd.ret_msa.aseq[1].s = <<"A", ".", "A">>

(***************************************************************************)
(* Properties of the Stockholm weights                                     *)
(***************************************************************************)
IsWeightLine(line) == Len(line) = 4 /\ line[1] = Tok("#=GS") /\ line[3] = Tok("WT")
IsSequenceLine(line) == Len(line) = 2 /\ Len(line[1]) = 1 /\ line[1][1] \notin HashAtoms

\* the lines of the first record: those before the first terminator
FirstRecord(lines) ==
  LET ends == { i \in 1 .. Len(lines) : stockholm_is_terminator(lines[i]) }
  IN IF ends = {} THEN lines ELSE SubSeq(lines, 1, SetMin(ends) - 1)

\* the position of the first line naming a sequence, for every sequence named
NamedAt(lines, name) ==
  { i \in 1 .. Len(lines) :
      \/ IsSequenceLine(lines[i]) /\ lines[i][1] = name
      \/ Len(lines[i]) >= 2 /\ lines[i][1] \in {Tok("#=GS"), Tok("#=GR")} /\ lines[i][2] = name }
RecordNames(lines) ==
  { lines[i][1] : i \in { j \in 1 .. Len(lines) : IsSequenceLine(lines[j]) } }
    \cup { lines[i][2] : i \in { j \in 1 .. Len(lines) :
                                  Len(lines[j]) >= 2
                                    /\ lines[j][1] \in {Tok("#=GS"), Tok("#=GR")} } }

WeightLinesOf(lines, name) ==
  { i \in 1 .. Len(lines) : IsWeightLine(lines[i]) /\ lines[i][2] = name }
\* a #=GS WT line names the sequence
ReceivedWeight(lines, name) == WeightLinesOf(lines, name) # {}
\* the last #=GS WT line naming the sequence gives another weight than -1.0
HasWeight(lines, name) ==
  /\ ReceivedWeight(lines, name)
  /\ atof(lines[SetMax(WeightLinesOf(lines, name))][4]) # UnsetWeight

\* the number of residues on the sequence lines of a sequence
RECURSIVE ResiduesOf(_, _)
ResiduesOf(lines, name) ==
  IF lines = <<>> THEN 0
  ELSE (IF IsSequenceLine(Head(lines)) /\ Head(lines)[1] = name
        THEN Len(Head(lines)[2]) ELSE 0) + ResiduesOf(Tail(lines), name)

\* the first read of a Stockholm file whose first record has a #=GS WT line
WeightRead ==
  /\ CalledOn(eslMSAFILE_STOCKHOLM) /\ rd.start.linenumber = 0
  /\ \E i \in 1 .. Len(FirstRecord(rd.start.lines)) :
       IsWeightLine(FirstRecord(rd.start.lines)[i])

\* the file is one record from its header to its terminator
RecordFramed(lines) ==
  Len(lines) >= 3 /\ lines[1] = StockholmHeader /\ lines[Len(lines)] = Terminator

\* header, sequence lines of valid residues and #=GS WT lines, terminator;
\* every sequence named has residues, and all have as many
WeightRecordWellFormed(lines) ==
  /\ RecordFramed(lines)
  /\ \A i \in 2 .. (Len(lines) - 1) :
       \/ IsWeightLine(lines[i])
       \/ IsSequenceLine(lines[i]) /\ lines[i][2] # <<>> /\ Digitizable(lines[i][2])
  /\ \A n1, n2 \in RecordNames(lines) :
       ResiduesOf(lines, n1) > 0 /\ ResiduesOf(lines, n1) = ResiduesOf(lines, n2)

\* the sequence without weight that is named first
FirstWithoutWeight(lines) ==
  CHOOSE name \in RecordNames(lines) :
    /\ ~HasWeight(lines, name)
    /\ \A other \in RecordNames(lines) :
         ~HasWeight(lines, other) => SetMin(NamedAt(lines, name)) <= SetMin(NamedAt(lines, other))

\* C36 as stated: a Stockholm record with header, terminator and a #=GS WT line parses only if
\* every sequence received a weight, and otherwise fails with a format error
\* naming a sequence that lacks one
C36_WeightsAllOrNone ==
  (WeightRead /\ RecordFramed(rd.start.lines)) =>
    LET lines == FirstRecord(rd.start.lines)
    IN /\ rd.status = eslOK => \A name \in RecordNames(lines) : ReceivedWeight(lines, name)
       /\ (\E name \in RecordNames(lines) : ~ReceivedWeight(lines, name)) =>
            /\ rd.status = eslEFORMAT
            /\ rd.errbuf.text = "expected a weight"
            /\ ~ReceivedWeight(lines, rd.errbuf.seq)

\* C36: a Stockholm record with a #=GS WT line parses only if every sequence
\* has a weight, a weight of -1.0 counting as none; a record with nothing
\* else wrong (header, terminator, only sequence lines of valid residues and
\* #=GS WT lines, every sequence with the same positive number of residues)
\* in which a sequence has no weight fails with eslEFORMAT and no MSA, the
\* message naming the first-named sequence without weight
C36_WeightsAllOrNoneWellFormed ==
  WeightRead =>
    LET lines == FirstRecord(rd.start.lines)
    IN /\ rd.status = eslOK =>
            /\ \A name \in RecordNames(lines) : HasWeight(lines, name)
            /\ "eslMSA_HASWGTS" \in rd.ret_msa.flags
            /\ \A idx \in 0 .. (rd.ret_msa.nseq - 1) : rd.ret_msa.wgt[idx] # UnsetWeight
       /\ (/\ WeightRecordWellFormed(rd.start.lines)
           /\ \E name \in RecordNames(lines) : ~HasWeight(lines, name)) =>
            /\ rd.status = eslEFORMAT /\ rd.ret_msa = NULL
            /\ rd.errbuf.text = "expected a weight"
            /\ rd.errbuf.seq = FirstWithoutWeight(lines)

\* sequence a has the weight 2, sequence b of as many residues has none: the
\* read fails naming b
C36_Witness ==
  /\ WeightRead /\ WeightRecordWellFormed(rd.start.lines)
  /\ HasWeight(FirstRecord(rd.start.lines), Tok("a"))
  /\ ~ReceivedWeight(FirstRecord(rd.start.lines), Tok("b"))
  /\ Tok("b") \in RecordNames(FirstRecord(rd.start.lines))
  /\ rd.status = eslEFORMAT /\ rd.ret_msa = NULL
  /\ rd.errbuf.text = "expected a weight" /\ rd.errbuf.seq = Tok("b")

\* both sequences have a weight and the read succeeds with them
C36_WitnessAll ==
  /\ WeightRead /\ WeightRecordWellFormed(rd.start.lines)
  /\ rd.status = eslOK /\ rd.ret_msa.nseq = 2
  /\ \A idx \in 0 .. 1 : rd.ret_msa.wgt[idx] = Rat(2, 1)

(***************************************************************************)
(* Properties of the #=GF cutoff lines                                     *)
(***************************************************************************)
IsCutoffLine(line) ==
  Len(line) >= 2 /\ line[1] = Tok("#=GF") /\ line[2] \in { Tok(pair) : pair \in CutoffPairs }

\* the whitespace-delimited values of a cutoff line
CutoffValuesOf(line) ==
  SelectSeq(SubSeq(line, 3, Len(line)), LAMBDA tok : tok # TrailingBlanks)

\* the first read of a record of cutoff lines and one sequence
CutoffRead ==
  /\ CalledOn(eslMSAFILE_STOCKHOLM) /\ rd.start.linenumber = 0
  /\ RecordFramed(rd.start.lines)
  /\ Len(rd.start.lines) >= 4
  /\ rd.start.lines[Len(rd.start.lines) - 1] = SeqLine("a", <<"A">>)
  /\ \A i \in 2 .. (Len(rd.start.lines) - 2) : IsCutoffLine(rd.start.lines[i])

CutoffLinesOf(lines, pair) ==
  { i \in 1 .. Len(lines) : IsCutoffLine(lines[i]) /\ lines[i][2] = Tok(pair) }

\* what the cutoff lines of one pair give: the first value of the last line,
\* the second value of the last line that has two
CutoffsAsWritten(lines, pair, m) ==
  LET mine == CutoffLinesOf(lines, pair)
      two == { i \in mine : Len(CutoffValuesOf(lines[i])) >= 2 }
  IN /\ m.cutset[pair] = << mine # {}, two # {} >>
     /\ mine # {} => m.cutoff[pair][1] = atof(CutoffValuesOf(lines[SetMax(mine)])[1])
     /\ two # {} => m.cutoff[pair][2] = atof(CutoffValuesOf(lines[SetMax(two)])[2])

\* C37: for GA, NC and TC alike, a cutoff line without value is a format
\* error; otherwise the first value sets the first cutoff and its flag, and
\* the second cutoff and its flag are set exactly when the line has a second
\* whitespace-delimited value, trailing blanks not counting as one
C37_CutoffLinesAlike ==
  CutoffRead =>
    LET lines == rd.start.lines
    IN IF \E i \in 1 .. Len(lines) : IsCutoffLine(lines[i]) /\ CutoffValuesOf(lines[i]) = <<>>
       THEN rd.status = eslEFORMAT /\ rd.ret_msa = NULL
       ELSE /\ rd.status = eslOK
            /\ \A pair \in CutoffPairs : CutoffsAsWritten(lines, pair, rd.ret_msa)

\* the same for records in which no TC value is followed by blanks and no
\* cutoff line ends after its tag
C37_CutoffLinesButTrailingBlanks ==
  (/\ CutoffRead
   /\ \A i \in 1 .. Len(rd.start.lines) :
        IsCutoffLine(rd.start.lines[i]) =>
          /\ Len(rd.start.lines[i]) >= 3
          /\ (rd.start.lines[i][2] = Tok("TC") /\ Len(rd.start.lines[i]) >= 4)
               => rd.start.lines[i][4] # TrailingBlanks) =>
    C37_CutoffLinesAlike

(***************************************************************************)
(* Properties of the round trip through a profile                          *)
(***************************************************************************)
\* ProfileToHMM has run on the profile HMMToProfile made from a valid HMM
RoundTripOfValidHMM ==
  /\ pc = "roundtrip" /\ src = "hmm"
  /\ hmmfile # NULL /\ p7_hmm_Validate(hmmfile) = eslOK

\* C38: the assertion of ProfileToHMM on the last position's insert emission
\* holds for every profile that HMMToProfile makes from a valid HMM:
\* PostAlignInsertion equals PreAlignInsertion, and the round trip never
\* aborts
C38_RoundTripNeverAborts ==
  RoundTripOfValidHMM =>
    /\ \A res_i \in Residues :
         REq(profile.PostAlignInsertion[res_i], profile.PreAlignInsertion[res_i])
    /\ status # SIGABRT

\* the same for the HMMs whose insert emissions at position 0 and at
\* position M are equal
C38_RoundTripOfEqualInserts ==
  (RoundTripOfValidHMM /\ hmmfile.ins[0] = hmmfile.ins[hmmfile.M]) =>
    C38_RoundTripNeverAborts

====
